---------------------------- MODULE Spec2Model ----------------------------
(***************************************************************************)
(* A model of the PDF highlight editor: the editor component (capture,     *)
(* highlight store, save/load), and the pdf-highlights endpoint (GET load, *)
(* POST full-replace sync) over the `highlights` table of the row store.   *)
(*                                                                         *)
(* Numbers that the code computes by dividing by the zoom scale are kept   *)
(* as reduced fractions [n, d]; the scale itself is kept in tenths         *)
(* (1.8 is 18), as zoomIn/zoomOut round it to one decimal.                 *)
(***************************************************************************)
EXTENDS Integers, Sequences, FiniteSets, TLC

\* ------------------------------------------------------------------ bounds
\* Request slots of the server (requests that can be in flight at once).
MaxReq == 2
\* Longest local highlight sequence the capturer is let to build.
MaxHighlights == 2
\* Largest value of the millisecond clock read by the capturer.
MaxNow == 2
\* Largest zoom scale (in tenths) zoomIn is let to reach.
MaxScale == 20
\* Most highlights in the export payload of a client of the export endpoint.
MaxExport == 2
\* Most highlights in a loaded sequence that the sidebar groups.
MaxGroup == 3
\* Latest Date.now() the upload endpoint reads.
MaxStamp == 2

\* --------------------------------------------------------------- universe
Null == "null"
\* The id of an object that has no id property.
Undefined == <<"undefined">>

PdfIds == {"A", "B"}
\* Local files the user can pick: a one-page and a two-page document.
LocalFiles == {"note.pdf", "paper.pdf"}
Url(id) == IF id = "A" THEN "urlA" ELSE "urlB"
Files == {Url(id) : id \in PdfIds} \cup LocalFiles

\* pdf.numPages of each document that can be opened.
DocNumPages(f) ==
    CASE f = Url("A") -> 2
      [] f = Url("B") -> 1
      [] f = "note.pdf" -> 1
      [] OTHER -> 2

YELLOW == "rgba(255, 255, 0, 0.4)"
RED == "rgba(255, 0, 0, 0.3)"
BLUE == "rgba(0, 0, 255, 0.3)"
HIGHLIGHT_COLORS == {YELLOW, RED, BLUE}

\* ------------------------------------------------------------- arithmetic
RECURSIVE Gcd(_, _)
Gcd(a, b) == IF b = 0 THEN a ELSE Gcd(b, a % b)

Abs(x) == IF x < 0 THEN -x ELSE x

\* The quotient num/den (den > 0) as a reduced fraction.
Frac(num, den) ==
    LET g == Gcd(Abs(num), den)
    IN  [n |-> num \div g, d |-> den \div g]

\* value / scale, the scale given in tenths.
DivScale(value, scale10) == Frac(value * 10, scale10)

IsZero(q) == q.n = 0


\* ------------------------------------------------------------------ state
VARIABLES
    \* --- the editor component (React state and refs)
    props,                  \* initialPdfId / initialFileUrl handed by the parent
    file,                   \* the opened file: a URL, a local file, or Null
    currentPdfId,
    numPages,               \* 0 stands for null
    pageNumber,             \* the active ("most visible") page
    highlights,
    highlightedPages,
    hasUnsavedChanges,
    isSyncing,
    isLoadingPdf,
    pdfLoadError,
    scale,                  \* zoom scale, in tenths
    selectedHighlightColor,
    docLoaded,              \* the Document component holds the parsed file
    observed,               \* page wrappers the IntersectionObserver observes
    \* --- the browser
    selection,              \* window.getSelection()
    now,                    \* Date.now()
    \* --- the server and the network
    highlightsTable,        \* rows of the `highlights` table, in insertion order
    requests,               \* request slot -> request in flight, or NoReq
    \* --- export
    isExporting,            \* the editor's export busy flag
    exportRequest,          \* the export request in flight, or NoExport
    \* --- a client that syncs the same highlights twice in a row
    twice,
    \* --- the stored documents
    pdfsTable,              \* rows of the `pdfs` table
    blobStore,              \* object paths of the `pdf-uploads` bucket
    fileRequest,            \* the upload or delete request in flight, or NoFileRequest
    \* --- the editor's view
    scrollTarget,           \* the page whose element scrollIntoView was last called on, 0: none
    pageThumbnails,         \* page -> the document its thumbnail was rendered from
    generatingThumbnails,   \* pages marked as being rendered
    thumbnailRenders,       \* the rendering operations in flight
    pdfDocProxy,            \* the parsed document the thumbnails are rendered from
    \* --- the manage-files page (React state) and its list requests
    pageMounted,            \* the page has rendered and run its effect
    isLoading,              \* the page's shared busy flag
    selectedFile,           \* the file picked in the upload form, or Null
    pdfFiles,               \* the rows the page lists
    listRequests            \* the list requests in flight, in the order sent

editorVars == <<props, file, currentPdfId, numPages, pageNumber, highlights,
                highlightedPages, hasUnsavedChanges, isSyncing, isLoadingPdf,
                pdfLoadError, scale, selectedHighlightColor, docLoaded, observed>>
browserVars == <<selection, now>>
serverVars == <<highlightsTable, requests>>
exportVars == <<isExporting, exportRequest>>
fileVars == <<pdfsTable, blobStore, fileRequest>>
thumbnailVars == <<pageThumbnails, generatingThumbnails, thumbnailRenders, pdfDocProxy>>
viewVars == <<scrollTarget, thumbnailVars>>
pageVars == <<pageMounted, isLoading, selectedFile, pdfFiles, listRequests>>
\* What the editing session and the sync endpoint leave alone.
otherVars == <<exportVars, twice, fileVars, viewVars, pageVars>>
\* What the export, the twice-syncing client and the file endpoints leave alone
\* besides the session.
restOfExport == <<twice, fileVars, viewVars, pageVars>>
restOfTwice == <<exportVars, fileVars, viewVars, pageVars>>
restOfFiles == <<exportVars, twice, viewVars, pageVars>>
restOfView == <<exportVars, twice, fileVars, pageVars>>
restOfPage == <<exportVars, twice, viewVars>>
vars == <<editorVars, browserVars, serverVars, otherVars>>

\* setPageThumbnails({})
NoThumbnails == [p \in {} |-> Null]

\* -------------------------------------------------------------- selections
NoSelection == [rangeCount |-> 0, isCollapsed |-> TRUE, clientRects |-> <<>>, text |-> ""]

ClientRect(t, l, w, h) == [top |-> t, left |-> l, width |-> w, height |-> h]

\* A caret: one range, collapsed.
SelCollapsed == [rangeCount |-> 1, isCollapsed |-> TRUE, clientRects |-> <<>>, text |-> ""]
\* A range that covers no rendered box.
SelNoRects == [rangeCount |-> 1, isCollapsed |-> FALSE, clientRects |-> <<>>, text |-> "nl"]
\* Only zero-area boxes.
SelDegenerate ==
    [rangeCount |-> 1, isCollapsed |-> FALSE,
     clientRects |-> <<ClientRect(46, 23, 0, 18), ClientRect(64, 23, 90, 0)>>, text |-> " "]
\* One line of text.
SelLine ==
    [rangeCount |-> 1, isCollapsed |-> FALSE,
     clientRects |-> <<ClientRect(46, 23, 90, 18)>>, text |-> "one"]
\* Two lines, with a zero-width box between them.
SelMixed ==
    [rangeCount |-> 1, isCollapsed |-> FALSE,
     clientRects |-> <<ClientRect(82, 41, 54, 18), ClientRect(82, 95, 0, 18),
                       ClientRect(100, 23, 27, 18)>>, text |-> "two"]

Selections == {NoSelection, SelCollapsed, SelNoRects, SelDegenerate, SelLine, SelMixed}
\* The selections that can end as a highlight: what the session model selects.
TextSelections == {SelLine, SelMixed}

RandomSuffixes == {"r1", "r2"}

\* getBoundingClientRect() of the wrapper of page p (pages stacked in the viewport).
PageRect(p) == [top |-> 10 + (p - 1) * 400, left |-> 5]

\* ------------------------------------------------------- the highlight store
\* updateHighlightedPagesSet's set.
PagesOf(hs) == {hs[i].page_number : i \in 1..Len(hs)}

\* The page wrappers mounted under the Document: pageRefs.current.
PageRefs == IF docLoaded THEN 1..numPages ELSE {}

\* The toolbar (colour, Highlight, zoom, save, export buttons) is rendered.
ToolbarShown == (file # Null \/ props # Null) /\ numPages # 0

\* ----------------------------------------------------------------- capture
\* A mapping that forgets to divide by the zoom scale.
ToStorageRectUnscaled(cr, pageRect, scale10) ==
    [top |-> Frac(cr.top - pageRect.top, 1), left |-> Frac(cr.left - pageRect.left, 1),
     width |-> Frac(cr.width, 1), height |-> Frac(cr.height, 1)]

\* The stored rectangle of a client rectangle: page-relative, divided by the scale.
ToStorageRect(cr, pageRect, scale10) ==
    [top    |-> DivScale(cr.top - pageRect.top, scale10),
     left   |-> DivScale(cr.left - pageRect.left, scale10),
     width  |-> DivScale(cr.width, scale10),
     height |-> DivScale(cr.height, scale10)]

\* value * scale, the scale given in tenths.
TimesScale(q, scale10) == Frac(q.n * scale10, q.d * 10)

\* The overlay of a stored rectangle at the current zoom: its style in pixels.
ToScreenRect(rect, scale10) ==
    [top    |-> TimesScale(rect.top, scale10),
     left   |-> TimesScale(rect.left, scale10),
     width  |-> TimesScale(rect.width, scale10),
     height |-> TimesScale(rect.height, scale10)]

NewHighlightRects(clientRects, pageRect, scale10) ==
    [i \in 1..Len(clientRects) |-> ToStorageRect(clientRects[i], pageRect, scale10)]

\* A rejection test that lets a box through unless both its sides are zero.
NothingWithBothSidesZero(rects) ==
    \/ Len(rects) = 0
    \/ \A i \in 1..Len(rects) : IsZero(rects[i].width) /\ IsZero(rects[i].height)

\* The capturer's rejection test on the mapped rectangles.
NothingToHighlight(rects) ==
    \/ Len(rects) = 0
    \/ \A i \in 1..Len(rects) : IsZero(rects[i].width) \/ IsZero(rects[i].height)

\* `hl-${Date.now()}-${random suffix}`
NewId(t, rnd) == <<"hl", t, rnd>>

NewHighlight(t, rnd, page, rects, text, color) ==
    [id |-> NewId(t, rnd), page_number |-> page, rects |-> rects,
     selected_text |-> text, color |-> color]

\* A store that puts the new highlight first.
PrependedHighlights(hs, h) == <<h>> \o hs

\* [...highlights, newHighlight]
UpdatedHighlights(hs, h) == Append(hs, h)

\* --------------------------------------------------------------- requests
ReqIds == 1..MaxReq
NoReq == [method |-> "none"]

FreeSlots == {r \in ReqIds : requests[r] = NoReq}

\* fetch(): the request of a client continuation `owner`, on its way to the server.
\* `overlap` and `last` are history fields, read by no action: the request was in
\* flight or in the handler together with another sync of the same document; the
\* handler's last step before it answered.
NewRequest(method, owner, pdfId, body) ==
    [method |-> method, owner |-> owner, pdfId |-> pdfId, body |-> body,
     pc |-> "sent", status |-> 0, data |-> <<>>, overlap |-> FALSE, last |-> "none"]

InHandler(q) == q # NoReq /\ q.pc \in {"sent", "deleted"}

Overlaps(req, q) ==
    InHandler(q) /\ req.method = "POST" /\ q.method = "POST" /\ q.pdfId = req.pdfId

\* The request table once `req` is in flight in the lowest free slot.
Sent(req) ==
    LET r == CHOOSE x \in FreeSlots : \A y \in FreeSlots : x <= y
        ov == \E q \in ReqIds : Overlaps(req, requests[q])
    IN  [q \in ReqIds |->
            IF q = r THEN [req EXCEPT !.overlap = ov]
            ELSE IF Overlaps(req, requests[q]) THEN [requests[q] EXCEPT !.overlap = TRUE]
            ELSE requests[q]]

\* JSON.stringify({ pdfId, highlights })
SyncBody(pdfId, hs) ==
    [parsable |-> TRUE, pdfId |-> pdfId, isArray |-> TRUE, highlights |-> hs]

\* --------------------------------------------------- editor: opening a file
\* The parent hands new props: the effect on [initialFileUrl, initialPdfId].
\* The Document component drops the file it held and loads the new one; the
\* page wrappers unmount; setNumPages(null) reruns the observer effect.
PropsChange(p) ==
    /\ p # props
    /\ props' = p
    /\ IF p # Null
       THEN /\ file' = Url(p)
            /\ currentPdfId' = p
            /\ isLoadingPdf' = TRUE
            /\ UNCHANGED <<numPages, pageNumber, pdfDocProxy>>
       ELSE /\ file' = Null
            /\ currentPdfId' = Null
            /\ numPages' = 0
            /\ pageNumber' = 1
            /\ isLoadingPdf' = FALSE
            /\ pdfDocProxy' = Null
    /\ pageThumbnails' = NoThumbnails
    /\ highlights' = <<>>
    /\ highlightedPages' = {}
    /\ hasUnsavedChanges' = FALSE
    /\ pdfLoadError' = Null
    /\ docLoaded' = FALSE
    /\ observed' = {}
    /\ selection' = NoSelection
    /\ UNCHANGED <<isSyncing, scale, selectedHighlightColor, now, serverVars, restOfView,
                   scrollTarget, generatingThumbnails, thumbnailRenders>>

\* The user picks a local file in the file input (enabled unless the file shown
\* is the one the props name).
handleFileChange(uploadedFile) ==
    /\ ~(props # Null /\ file = Url(props))
    /\ file # uploadedFile
    /\ file' = uploadedFile
    /\ currentPdfId' = Null
    /\ highlights' = <<>>
    /\ highlightedPages' = {}
    /\ hasUnsavedChanges' = FALSE
    /\ pdfLoadError' = Null
    /\ isLoadingPdf' = TRUE
    /\ docLoaded' = FALSE
    /\ observed' = {}
    /\ selection' = NoSelection
    /\ pageThumbnails' = NoThumbnails
    /\ generatingThumbnails' = {}
    /\ UNCHANGED <<props, numPages, pageNumber, isSyncing, scale,
                   selectedHighlightColor, now, serverVars, restOfView,
                   scrollTarget, thumbnailRenders, pdfDocProxy>>

\* The Document component is rendered and still loading its file.
DocumentLoading == file # Null /\ pdfLoadError = Null /\ ~docLoaded

\* loadHighlightsForPdf up to its await: the GET goes out.
LoadRequest(pdfIdToLoad) == NewRequest("GET", "load", pdfIdToLoad, Null)

\* setPdfDocProxy(pdf): the renderings in flight hold the proxy of before.
Superseded(renders) == [k \in DOMAIN renders |-> [renders[k] EXCEPT !.current = FALSE]]

\* The file is parsed: onDocumentLoadSuccess, then the observer effect if the
\* page count changed.
onDocumentLoadSuccess ==
    /\ DocumentLoading
    /\ docLoaded' = TRUE
    /\ numPages' = DocNumPages(file)
    /\ pageNumber' = 1
    /\ isLoadingPdf' = FALSE
    /\ pdfLoadError' = Null
    /\ observed' = IF numPages' # numPages THEN 1..numPages' ELSE observed
    /\ IF currentPdfId # Null
       THEN /\ FreeSlots # {}
            /\ requests' = Sent(LoadRequest(currentPdfId))
            /\ UNCHANGED <<highlights, highlightedPages, hasUnsavedChanges>>
       ELSE /\ highlights' = <<>>
            /\ highlightedPages' = {}
            /\ hasUnsavedChanges' = FALSE
            /\ UNCHANGED requests
    /\ pdfDocProxy' = file
    /\ pageThumbnails' = NoThumbnails
    /\ generatingThumbnails' = {}
    /\ thumbnailRenders' = Superseded(thumbnailRenders)
    /\ UNCHANGED <<props, file, currentPdfId, isSyncing, scale, selectedHighlightColor,
                   browserVars, highlightsTable, restOfView, scrollTarget>>

\* The file cannot be parsed: onDocumentLoadError, then the observer effect if
\* a page count was known.
onDocumentLoadError ==
    /\ DocumentLoading
    /\ pdfLoadError' = "Error loading PDF"
    /\ isLoadingPdf' = FALSE
    /\ file' = Null
    /\ currentPdfId' = Null
    /\ numPages' = 0
    /\ observed' = {}
    /\ pdfDocProxy' = Null
    /\ UNCHANGED <<props, pageNumber, highlights, highlightedPages, hasUnsavedChanges,
                   isSyncing, scale, selectedHighlightColor, docLoaded, browserVars,
                   serverVars, restOfView, scrollTarget, pageThumbnails,
                   generatingThumbnails, thumbnailRenders>>

\* ------------------------------------------------------ editor: thumbnails
MaxRenders == 4

\* A rendering operation: generatePageThumbnail(page, doc) past its guard.
\* current: doc is the proxy the editor holds, not one it held before.
Render(doc, page) == [doc |-> doc, page |-> page, current |-> TRUE]

\* The pages for which the effect calls generatePageThumbnail and the guard of
\* generatePageThumbnail lets it through: no thumbnail, no marker.
PagesToRender ==
    IF pdfDocProxy # Null /\ numPages > 0
    THEN {i \in 1..numPages : i \notin DOMAIN pageThumbnails /\ i \notin generatingThumbnails}
    ELSE {}

\* for (let i = 1; i <= numPages; i++): the renderings started, in page order.
RECURSIVE RendersStarted(_, _)
RendersStarted(doc, pages) ==
    IF pages = {} THEN <<>>
    ELSE LET i == CHOOSE p \in pages : \A q \in pages : p <= q
         IN  <<Render(doc, i)>> \o RendersStarted(doc, pages \ {i})

\* The sequence without its k-th element.
Without(seq, k) == SubSeq(seq, 1, k - 1) \o SubSeq(seq, k + 1, Len(seq))

\* The effect on [numPages, pdfDocProxy, generatePageThumbnail, pageThumbnails,
\* generatingThumbnails]: each page that passes the guard is marked and its
\* rendering starts.
thumbnailEffect ==
    /\ PagesToRender # {}
    /\ Len(thumbnailRenders) + Cardinality(PagesToRender) <= MaxRenders
    /\ generatingThumbnails' = generatingThumbnails \cup PagesToRender
    /\ thumbnailRenders' = thumbnailRenders \o RendersStarted(pdfDocProxy, PagesToRender)
    /\ UNCHANGED <<editorVars, browserVars, serverVars, restOfView, scrollTarget,
                   pageThumbnails, pdfDocProxy>>

\* React runs the effect before it takes up the next update.
EffectDone == PagesToRender = {}

\* generatePageThumbnail after page.render: the thumbnail is stored under the
\* page number, then finally deletes the marker of that page number.
thumbnailRendered(k) ==
    /\ k \in DOMAIN thumbnailRenders
    /\ LET r == thumbnailRenders[k]
       IN  /\ pageThumbnails' =
                  [p \in DOMAIN pageThumbnails \cup {r.page} |->
                      IF p = r.page THEN r.doc ELSE pageThumbnails[p]]
           /\ generatingThumbnails' = generatingThumbnails \ {r.page}
    /\ thumbnailRenders' = Without(thumbnailRenders, k)
    /\ UNCHANGED <<editorVars, browserVars, serverVars, restOfView, scrollTarget,
                   pdfDocProxy>>

\* generatePageThumbnail when getPage or render rejects, or the canvas gives no
\* 2D context: the marker of the page number is deleted, no thumbnail stored.
thumbnailFailed(k) ==
    /\ k \in DOMAIN thumbnailRenders
    /\ generatingThumbnails' = generatingThumbnails \ {thumbnailRenders[k].page}
    /\ thumbnailRenders' = Without(thumbnailRenders, k)
    /\ UNCHANGED <<editorVars, browserVars, serverVars, restOfView, scrollTarget,
                   pageThumbnails, pdfDocProxy>>

\* ------------------------------------------------------ editor: the toolbar
\* The user selects text on screen, or drops the selection.
Select(sel) ==
    /\ sel # selection
    /\ selection' = sel
    /\ UNCHANGED <<editorVars, now, serverVars, otherVars>>

setSelectedHighlightColor(c) ==
    /\ ToolbarShown
    /\ c # selectedHighlightColor
    /\ selectedHighlightColor' = c
    /\ UNCHANGED <<props, file, currentPdfId, numPages, pageNumber, highlights,
                   highlightedPages, hasUnsavedChanges, isSyncing, isLoadingPdf,
                   pdfLoadError, scale, docLoaded, observed, browserVars, serverVars,
                   otherVars>>

\* A zoom out without the floor of Math.max.
ZoomedOutUnbounded(s) == s - 2

\* parseFloat((s + 0.2).toFixed(1)), in tenths.
ZoomedIn(s) == s + 2
\* parseFloat(Math.max(0.2, s - 0.2).toFixed(1)), in tenths.
ZoomedOut(s) == IF s - 2 > 2 THEN s - 2 ELSE 2
DefaultScale == 18

SetScale(s) ==
    /\ ToolbarShown
    /\ scale' = s
    /\ UNCHANGED <<props, file, currentPdfId, numPages, pageNumber, highlights,
                   highlightedPages, hasUnsavedChanges, isSyncing, isLoadingPdf,
                   pdfLoadError, selectedHighlightColor, docLoaded, observed,
                   browserVars, serverVars, otherVars>>

zoomIn == ZoomedIn(scale) <= MaxScale /\ SetScale(ZoomedIn(scale))
zoomOut == SetScale(ZoomedOut(scale))
resetZoom == SetScale(DefaultScale)

\* A callback that lets the last intersecting entry win.
LastIntersecting(entries) ==
    LET hits == {i \in 1..Len(entries) : entries[i].isIntersecting}
    IN  IF hits = {} THEN 0 ELSE CHOOSE i \in hits : \A j \in hits : i >= j

\* The observer's callback on a batch of entries, each [page, isIntersecting]:
\* the first intersecting entry names the active page.
FirstIntersecting(entries) ==
    LET hits == {i \in 1..Len(entries) : entries[i].isIntersecting}
    IN  IF hits = {} THEN 0 ELSE CHOOSE i \in hits : \A j \in hits : i <= j

\* The batches of one entry, and of two, over the observed pages.
Entries(pages) == {[page |-> p, isIntersecting |-> b] : p \in pages, b \in BOOLEAN}
SingleEntries(pages) == {<<e>> : e \in Entries(pages)}
EntryPairs(pages) == {<<e1, e2>> : e1 \in Entries(pages), e2 \in Entries(pages)}

observerCallback(entries) ==
    /\ LET i == FirstIntersecting(entries)
       IN  pageNumber' = IF i # 0 THEN entries[i].page ELSE pageNumber
    /\ UNCHANGED <<props, file, currentPdfId, numPages, highlights, highlightedPages,
                   hasUnsavedChanges, isSyncing, isLoadingPdf, pdfLoadError, scale,
                   selectedHighlightColor, docLoaded, observed, browserVars, serverVars,
                   otherVars>>

\* ----------------------------------------------------- editor: navigation
\* A navigation that sets the active page itself.
PageAfterGoToSetsIt(num) == IF num >= 1 /\ num <= numPages THEN num ELSE pageNumber

\* The active page after goToPage: the function never calls setPageNumber.
PageAfterGoTo(num) == pageNumber

\* goToPage(num): the page's element, if the page is in the document and its
\* element is mounted, is scrolled into view.
goToPage(num) ==
    /\ scrollTarget' = IF num >= 1 /\ num <= numPages /\ num \in PageRefs THEN num
                       ELSE scrollTarget
    /\ pageNumber' = PageAfterGoTo(num)
    /\ UNCHANGED <<props, file, currentPdfId, numPages, highlights, highlightedPages,
                   hasUnsavedChanges, isSyncing, isLoadingPdf, pdfLoadError, scale,
                   selectedHighlightColor, docLoaded, observed, browserVars, serverVars,
                   thumbnailVars, restOfView>>

\* The Prev and Next buttons of the toolbar.
goToPrevPage == ToolbarShown /\ pageNumber > 1 /\ goToPage(pageNumber - 1)
goToNextPage == ToolbarShown /\ pageNumber < numPages /\ goToPage(pageNumber + 1)

\* ------------------------------------------------------- editor: the store
\* addHighlight, on the Highlight button. Two captures are two user gestures
\* (the first clears the selection), so the clock has advanced between them.
addHighlight(rnd) ==
    /\ ToolbarShown
    /\ IF selection.rangeCount = 0 \/ selection.isCollapsed
       THEN UNCHANGED <<highlights, highlightedPages, hasUnsavedChanges, selection, now>>
       ELSE IF pageNumber \notin PageRefs
       THEN UNCHANGED <<highlights, highlightedPages, hasUnsavedChanges, selection, now>>
       ELSE LET newHighlightRects ==
                    NewHighlightRects(selection.clientRects, PageRect(pageNumber), scale)
            IN  IF NothingToHighlight(newHighlightRects)
                THEN /\ selection' = NoSelection
                     /\ UNCHANGED <<highlights, highlightedPages, hasUnsavedChanges, now>>
                ELSE /\ Len(highlights) < MaxHighlights
                     /\ now < MaxNow
                     /\ now' = now + 1
                     /\ LET newHighlight ==
                                NewHighlight(now', rnd, pageNumber, newHighlightRects,
                                             selection.text, selectedHighlightColor)
                        IN  /\ highlights' = UpdatedHighlights(highlights, newHighlight)
                            /\ highlightedPages' = PagesOf(highlights')
                     /\ hasUnsavedChanges' = TRUE
                     /\ selection' = NoSelection
    /\ UNCHANGED <<props, file, currentPdfId, numPages, pageNumber, isSyncing,
                   isLoadingPdf, pdfLoadError, scale, selectedHighlightColor, docLoaded,
                   observed, serverVars, otherVars>>

\* highlights.filter(h => h.id !== highlightIdToDelete)
WithoutId(hs, id) == LET Keep(h) == h.id # id IN SelectSeq(hs, Keep)

\* handleDeleteHighlight, on the X button of a listed highlight.
handleDeleteHighlight(highlightIdToDelete) ==
    /\ highlights' = WithoutId(highlights, highlightIdToDelete)
    /\ highlightedPages' = PagesOf(highlights')
    /\ hasUnsavedChanges' = TRUE
    /\ UNCHANGED <<props, file, currentPdfId, numPages, pageNumber, isSyncing,
                   isLoadingPdf, pdfLoadError, scale, selectedHighlightColor, docLoaded,
                   observed, browserVars, serverVars, otherVars>>

IdsOf(hs) == {hs[i].id : i \in 1..Len(hs)}

\* ------------------------------------------------- editor: the sidebar list
\* a < b on the stored quantities.
Less(a, b) == a.n * b.d < b.n * a.d

\* The sort's comparator is negative or zero: a is not to be moved behind b.
NotAfter(a, b) == ~Less(b.rects[1].top, a.rects[1].top)

\* x put behind the last element of the sorted list that is not after it.
RECURSIVE InsertedByTop(_, _)
InsertedByTop(list, x) ==
    IF list = <<>> THEN <<x>>
    ELSE IF NotAfter(list[Len(list)], x) THEN Append(list, x)
    ELSE Append(InsertedByTop(SubSeq(list, 1, Len(list) - 1), x), list[Len(list)])

\* A list left in the order of insertion.
LeftInOrder(list) == list

\* list.sort((a, b) => a.rects[0]?.top - b.rects[0]?.top): a stable sort.
RECURSIVE SortedByTop(_)
SortedByTop(list) ==
    IF list = <<>> THEN <<>>
    ELSE InsertedByTop(SortedByTop(SubSeq(list, 1, Len(list) - 1)), list[Len(list)])

\* The reduce: each highlight pushed to the list of its page, the list sorted.
RECURSIVE GroupedByPage(_)
GroupedByPage(hs) ==
    IF hs = <<>> THEN [p \in {} |-> <<>>]
    ELSE LET acc == GroupedByPage(SubSeq(hs, 1, Len(hs) - 1))
             highlight == hs[Len(hs)]
             pageKey == highlight.page_number
             pushed == IF pageKey \in DOMAIN acc THEN Append(acc[pageKey], highlight)
                       ELSE <<highlight>>
         IN  [p \in DOMAIN acc \cup {pageKey} |->
                 IF p = pageKey THEN SortedByTop(pushed) ELSE acc[p]]

allHighlightsGroupedByPage == GroupedByPage(highlights)

\* keys.map(Number).sort((a, b) => a - b)
RECURSIVE Ascending(_)
Ascending(S) ==
    IF S = {} THEN <<>>
    ELSE LET least == CHOOSE x \in S : \A y \in S : x <= y
         IN  <<least>> \o Ascending(S \ {least})

pagesWithHighlights == Ascending(DOMAIN allHighlightsGroupedByPage)

\* --------------------------------------------------- editor: save and load
\* A Save button that is not disabled while a save is in flight.
SaveButtonIgnoringBusy == ToolbarShown /\ currentPdfId # Null /\ hasUnsavedChanges

\* A Save button that is rendered without a document identity.
SaveButtonWithoutIdentity == ToolbarShown /\ ~isSyncing /\ hasUnsavedChanges

\* The Save button: rendered when the session has a document identity, disabled
\* while isSyncing or not dirty.
SaveButtonEnabled ==
    ToolbarShown /\ currentPdfId # Null /\ ~isSyncing /\ hasUnsavedChanges

\* The body of handleSaveHighlights's fetch.
SaveRequest == NewRequest("POST", "save", currentPdfId, SyncBody(currentPdfId, highlights))

\* The handler's two early returns: it alerts and does nothing else.
SaveReturnsEarly == currentPdfId = Null \/ ~hasUnsavedChanges

handleSaveHighlights ==
    /\ SaveButtonEnabled
    /\ IF SaveReturnsEarly
       THEN UNCHANGED <<isSyncing, requests>>
       ELSE /\ FreeSlots # {}
            /\ isSyncing' = TRUE
            /\ requests' = Sent(SaveRequest)
    /\ UNCHANGED <<props, file, currentPdfId, numPages, pageNumber, highlights,
                   highlightedPages, hasUnsavedChanges, isLoadingPdf, pdfLoadError,
                   scale, selectedHighlightColor, docLoaded, observed, browserVars,
                   highlightsTable, otherVars>>

Responded(r) == requests[r] # NoReq /\ requests[r].pc = "responded"
ResponseOk(r) == requests[r].status = 200

\* What the client holds of the rows a load returns: the row's columns (the
\* table stores no client id).
LoadedHighlight(row) ==
    [id |-> Undefined, page_number |-> row.page_number, rects |-> row.rects,
     selected_text |-> row.selected_text, color |-> row.color]

LoadedHighlights(rows) == [i \in 1..Len(rows) |-> LoadedHighlight(rows[i])]

\* A load that keeps the local highlights when the response has none.
HighlightsKeptWhenNoneLoaded(r) ==
    IF ResponseOk(r) /\ requests[r].data # <<>> THEN LoadedHighlights(requests[r].data)
    ELSE highlights

\* What loadHighlightsForPdf stores when the response of request r is there.
HighlightsAfterLoad(r) ==
    IF ResponseOk(r) THEN LoadedHighlights(requests[r].data) ELSE <<>>

\* loadHighlightsForPdf after its await: the response, or the fetch's failure.
loadHighlightsResponse(r) ==
    /\ Responded(r)
    /\ requests[r].owner = "load"
    /\ highlights' = HighlightsAfterLoad(r)
    /\ highlightedPages' = PagesOf(highlights')
    /\ hasUnsavedChanges' = FALSE
    /\ requests' = [requests EXCEPT ![r] = NoReq]
    /\ UNCHANGED <<props, file, currentPdfId, numPages, pageNumber, isSyncing,
                   isLoadingPdf, pdfLoadError, scale, selectedHighlightColor, docLoaded,
                   observed, browserVars, highlightsTable, otherVars>>

\* A save that clears the flag whatever the response.
DirtyClearedWhateverTheResponse(r) == FALSE

\* The dirty flag after the save's response.
DirtyAfterSave(r) == IF ResponseOk(r) THEN FALSE ELSE hasUnsavedChanges

\* A save that sends its request again when the response is an error.
RequestsAfterSaveRetried(r) ==
    IF ResponseOk(r) THEN [requests EXCEPT ![r] = NoReq]
    ELSE [requests EXCEPT ![r] = [@ EXCEPT !.pc = "sent", !.status = 0]]

\* The requests after the save's response: the handler alerts and ends.
RequestsAfterSave(r) == [requests EXCEPT ![r] = NoReq]

\* A save that resets the busy flag at the end of its try block.
SyncingResetOnlyOnSuccess(r) == IF ResponseOk(r) THEN FALSE ELSE isSyncing

\* finally { setIsSyncing(false) }: after the ok branch, after the else branch
\* (also when the error body cannot be read and response.json() throws) and
\* after the catch.
SyncingAfterSave(r) == FALSE

\* handleSaveHighlights after its await: the response, or the fetch's failure.
saveHighlightsResponse(r) ==
    /\ Responded(r)
    /\ requests[r].owner = "save"
    /\ hasUnsavedChanges' = DirtyAfterSave(r)
    /\ isSyncing' = SyncingAfterSave(r)
    /\ requests' = RequestsAfterSave(r)
    /\ UNCHANGED <<props, file, currentPdfId, numPages, pageNumber, highlights,
                   highlightedPages, isLoadingPdf, pdfLoadError, scale,
                   selectedHighlightColor, docLoaded, observed, browserVars,
                   highlightsTable, otherVars>>

\* The fetch rejects: the request never reaches the server, or its response is lost.
NetworkError(r) ==
    /\ requests[r] # NoReq
    /\ requests[r].pc = "sent" \/ (requests[r].pc = "responded" /\ requests[r].status # 0)
    /\ requests' = [requests EXCEPT ![r].pc = "responded", ![r].status = 0,
                                    ![r].data = <<>>]
    /\ UNCHANGED <<editorVars, browserVars, highlightsTable, otherVars>>

\* ------------------------------------------- server: /api/pdf-highlights
\* One row of the `highlights` table per client highlight.
ToRow(pdfId, h) ==
    [pdf_id |-> pdfId, page_number |-> h.page_number, rects |-> h.rects,
     selected_text |-> h.selected_text, color |-> h.color]

HighlightsToInsert(pdfId, clientHighlights) ==
    [i \in 1..Len(clientHighlights) |-> ToRow(pdfId, clientHighlights[i])]

\* .from('highlights').select('*').eq('pdf_id', pdfId)
RowsOf(table, pdfId) == LET Keep(row) == row.pdf_id = pdfId IN SelectSeq(table, Keep)

\* A delete that lost its .eq() filter.
DeleteEveryRow(table, pdfId) == <<>>

\* A delete that removes nothing.
DeleteNoRow(table, pdfId) == table

\* .from('highlights').delete().eq('pdf_id', pdfId)
DeleteRows(table, pdfId) == LET Keep(row) == row.pdf_id # pdfId IN SelectSeq(table, Keep)

\* An insert that replaces the rows its document has.
InsertInPlaceOfDocument(table, rows) ==
    IF rows = <<>> THEN table ELSE DeleteRows(table, rows[1].pdf_id) \o rows

\* .from('highlights').insert(rows)
InsertRows(table, rows) == table \o rows

Respond(r, status, data, last) ==
    [requests EXCEPT ![r].pc = "responded", ![r].status = status, ![r].data = data,
                     ![r].last = last]

\* POST, first half: the body is read and checked, then the delete runs.
\* dbOk: the row store carries the delete out.
SyncDelete(r, dbOk) ==
    LET req == requests[r]
        body == req.body
    IN  /\ req # NoReq
        /\ req.method = "POST"
        /\ req.pc = "sent"
        /\ IF ~body.parsable
           THEN /\ requests' = Respond(r, 500, <<>>, "check")
                /\ UNCHANGED highlightsTable
           ELSE IF body.pdfId = Null \/ ~body.isArray
           THEN /\ requests' = Respond(r, 400, <<>>, "check")
                /\ UNCHANGED highlightsTable
           ELSE IF ~dbOk
           THEN /\ requests' = Respond(r, 500, <<>>, "delete")
                /\ UNCHANGED highlightsTable
           ELSE /\ highlightsTable' = DeleteRows(highlightsTable, body.pdfId)
                /\ requests' = IF Len(body.highlights) > 0
                               THEN [requests EXCEPT ![r].pc = "deleted"]
                               ELSE Respond(r, 200, <<>>, "delete")
        /\ UNCHANGED <<editorVars, browserVars, otherVars>>

\* The table after the insert of the POST, carried out or refused by the row store.
TableAfterInsert(table, body, dbOk) ==
    IF dbOk THEN InsertRows(table, HighlightsToInsert(body.pdfId, body.highlights))
    ELSE table

\* An insert whose error is not looked at.
StatusIgnoringInsertError(dbOk) == 200

\* The status the POST answers with after its insert.
StatusAfterInsert(dbOk) == IF dbOk THEN 200 ELSE 500

\* POST, second half: the insert runs and the handler answers.
SyncInsert(r, dbOk) ==
    LET req == requests[r]
    IN  /\ req # NoReq
        /\ req.method = "POST"
        /\ req.pc = "deleted"
        /\ highlightsTable' = TableAfterInsert(highlightsTable, req.body, dbOk)
        /\ requests' = Respond(r, StatusAfterInsert(dbOk), <<>>, "insert")
        /\ UNCHANGED <<editorVars, browserVars, otherVars>>

\* GET: the rows of the document, or an error.
LoadHandler(r, dbOk) ==
    LET req == requests[r]
    IN  /\ req # NoReq
        /\ req.method = "GET"
        /\ req.pc = "sent"
        /\ requests' = IF req.pdfId = Null THEN Respond(r, 400, <<>>, "check")
                       ELSE IF ~dbOk THEN Respond(r, 500, <<>>, "select")
                       ELSE Respond(r, 200, RowsOf(highlightsTable, req.pdfId), "select")
        /\ UNCHANGED <<highlightsTable, editorVars, browserVars, otherVars>>

\* ----------------------------------------------------- export: colours
\* Colour strings an export payload can carry besides the editor's three.
RgbOpaque == "rgb(10,20,30)"
RgbaHalf == "rgba(10,20,30,0.5)"
RgbaOver == "rgba(10,20,30,1.5)"
HexRed == "#ff0000"
RgbaNoClose == "rgba(10,20,30,0.5"
RgbaDot == "rgba(10,20,30,.)"
\* A highlight without a color property.
NoColor == "undefined"

\* The characters of a colour string.
Chars(c) ==
    CASE c = YELLOW -> <<"r", "g", "b", "a", "(", "2", "5", "5", ",", " ", "2", "5", "5", ",", " ", "0", ",", " ", "0", ".", "4", ")">>
      [] c = RED -> <<"r", "g", "b", "a", "(", "2", "5", "5", ",", " ", "0", ",", " ", "0", ",", " ", "0", ".", "3", ")">>
      [] c = BLUE -> <<"r", "g", "b", "a", "(", "0", ",", " ", "0", ",", " ", "2", "5", "5", ",", " ", "0", ".", "3", ")">>
      [] c = RgbOpaque -> <<"r", "g", "b", "(", "1", "0", ",", "2", "0", ",", "3", "0", ")">>
      [] c = RgbaHalf -> <<"r", "g", "b", "a", "(", "1", "0", ",", "2", "0", ",", "3", "0", ",", "0", ".", "5", ")">>
      [] c = RgbaOver -> <<"r", "g", "b", "a", "(", "1", "0", ",", "2", "0", ",", "3", "0", ",", "1", ".", "5", ")">>
      [] c = HexRed -> <<"#", "f", "f", "0", "0", "0", "0">>
      [] c = RgbaNoClose -> <<"r", "g", "b", "a", "(", "1", "0", ",", "2", "0", ",", "3", "0", ",", "0", ".", "5">>
      [] c = RgbaDot -> <<"r", "g", "b", "a", "(", "1", "0", ",", "2", "0", ",", "3", "0", ",", ".", ")">>
      [] OTHER -> <<>>

Digits == {"0", "1", "2", "3", "4", "5", "6", "7", "8", "9"}

DigitValue(ch) ==
    CASE ch = "0" -> 0 [] ch = "1" -> 1 [] ch = "2" -> 2 [] ch = "3" -> 3 [] ch = "4" -> 4
      [] ch = "5" -> 5 [] ch = "6" -> 6 [] ch = "7" -> 7 [] ch = "8" -> 8 [] ch = "9" -> 9

At(s, i) == IF i >= 1 /\ i <= Len(s) THEN s[i] ELSE "end"

\* The index after the longest run, from i, of characters of the class.
RECURSIVE RunEnd(_, _, _)
RunEnd(s, i, class) == IF i <= Len(s) /\ s[i] \in class THEN RunEnd(s, i + 1, class) ELSE i

Spaces == {" "}
DigitsOrDot == Digits \cup {"."}

\* parseInt of a run of digits.
RECURSIVE ParseInt(_)
ParseInt(ds) ==
    IF ds = <<>> THEN 0
    ELSE 10 * ParseInt(SubSeq(ds, 1, Len(ds) - 1)) + DigitValue(ds[Len(ds)])

RECURSIVE Pow10(_)
Pow10(k) == IF k = 0 THEN 1 ELSE 10 * Pow10(k - 1)

NaN == [n |-> 0, d |-> 0]

\* parseFloat of a run of digits and dots: the longest leading decimal literal
\* (digits, then at most one dot and digits), NaN when it holds no digit.
ParseFloat(t) ==
    LET e1 == RunEnd(t, 1, Digits)
        e2 == IF At(t, e1) = "." THEN RunEnd(t, e1 + 1, Digits) ELSE e1
        whole == SubSeq(t, 1, e1 - 1)
        frac == IF e2 > e1 THEN SubSeq(t, e1 + 1, e2 - 1) ELSE <<>>
    IN  IF whole = <<>> /\ frac = <<>> THEN NaN
        ELSE Frac(ParseInt(whole) * Pow10(Len(frac)) + ParseInt(frac), Pow10(Len(frac)))

NoMatch == [matched |-> FALSE]

\* /rgba?\((\d+),\s*(\d+),\s*(\d+)(?:,\s*([\d.]+))?\)/ tried at position i of s:
\* the groups, or NoMatch.
MatchAt(s, i) ==
    LET p0 == IF At(s, i + 3) = "a" THEN i + 4 ELSE i + 3
        r1 == p0 + 1
        r2 == RunEnd(s, r1, Digits)
        g1 == RunEnd(s, r2 + 1, Spaces)
        g2 == RunEnd(s, g1, Digits)
        b1 == RunEnd(s, g2 + 1, Spaces)
        b2 == RunEnd(s, b1, Digits)
        a1 == RunEnd(s, b2 + 1, Spaces)
        a2 == RunEnd(s, a1, DigitsOrDot)
        withAlpha == At(s, b2) = "," /\ a2 > a1 /\ At(s, a2) = ")"
    IN  IF /\ At(s, i) = "r" /\ At(s, i + 1) = "g" /\ At(s, i + 2) = "b"
           /\ At(s, p0) = "("
           /\ r2 > r1 /\ At(s, r2) = ","
           /\ g2 > g1 /\ At(s, g2) = ","
           /\ b2 > b1
           /\ (withAlpha \/ At(s, b2) = ")")
        THEN [matched |-> TRUE,
              g1 |-> SubSeq(s, r1, r2 - 1), g2 |-> SubSeq(s, g1, g2 - 1),
              g3 |-> SubSeq(s, b1, b2 - 1),
              hasAlpha |-> withAlpha,
              g4 |-> IF withAlpha THEN SubSeq(s, a1, a2 - 1) ELSE <<>>]
        ELSE NoMatch

\* String.prototype.match: the leftmost match.
RECURSIVE MatchFrom(_, _)
MatchFrom(s, i) ==
    IF i > Len(s) THEN NoMatch
    ELSE IF MatchAt(s, i).matched THEN MatchAt(s, i)
    ELSE MatchFrom(s, i + 1)

\* pdf-lib's rgb(red, green, blue).
Rgb(red, green, blue) == [red |-> red, green |-> green, blue |-> blue]

One == [n |-> 1, d |-> 1]
Zero == [n |-> 0, d |-> 1]
DefaultHighlightColor == Rgb(One, One, Zero)
DefaultHighlightOpacity == [n |-> 3, d |-> 10]

\* highlightColor and highlightOpacity of a highlight whose color is c.
ResolveColor(c) ==
    LET match == IF c = NoColor \/ c = "" THEN NoMatch ELSE MatchFrom(Chars(c), 1)
    IN  IF match.matched
        THEN [color |-> Rgb(Frac(ParseInt(match.g1), 255), Frac(ParseInt(match.g2), 255),
                            Frac(ParseInt(match.g3), 255)),
              opacity |-> IF match.hasAlpha THEN ParseFloat(match.g4) ELSE One]
        ELSE [color |-> DefaultHighlightColor, opacity |-> DefaultHighlightOpacity]

\* ------------------------------------------------- export: the endpoint
\* page.getSize() of the pages of a document, in PDF points.
PageSizes(f) ==
    [i \in 1..DocNumPages(f) |->
        IF i = 1 THEN [width |-> 600, height |-> 800] ELSE [width |-> 500, height |-> 700]]

\* Bytes that are no PDF: PDFDocument.load throws on them.
Garbage == "garbage"
\* Buffer.from(bytes).toString('base64') and Buffer.from(pdfData, 'base64').
ToBase64(f) == <<"base64", f>>
FromBase64(pdfData) == pdfData[2]
\* A body without a pdfData property.
NoPdfData == <<>>

\* a - b on the stored quantities.
Minus(a, b) == Frac(a.n * b.d - b.n * a.d, a.d * b.d)

NoExport == [pc |-> "none"]
NoTwice == [phase |-> "idle"]
NoFileRequest == [pc |-> "none"]

\* JSON.stringify({ pdfData, highlights }) of the export fetch.
ExportBody(pdfData, hs) ==
    [parsable |-> TRUE, pdfData |-> pdfData, hasHighlights |-> TRUE, highlights |-> hs]

\* A response that carries no document: none yet, or the JSON of an error.
NoOutput == [kind |-> "none"]

\* An export request on its way to the endpoint. `draws` are the rectangles
\* drawn into the document in memory, `output` the document of the response.
NewExport(owner, body) ==
    [pc |-> "sent", owner |-> owner, body |-> body, idx |-> 1, draws |-> <<>>, status |-> 0,
     output |-> NoOutput]

\* A test that takes the last page for an invalid one.
InvalidPageOffByOne(pn, pageCount) == pn <= 0 \/ pn >= pageCount

\* The highlight loop's test of the page number.
InvalidPage(pn, pageCount) == pn <= 0 \/ pn > pageCount

\* A call that keeps the top-left origin of the client.
DrawCallTopOrigin(pn, size, rect, resolved) ==
    [page |-> pn, x |-> rect.left, y |-> rect.top, width |-> rect.width,
     height |-> rect.height, color |-> resolved.color, opacity |-> resolved.opacity]

\* The page.drawRectangle call for one rectangle of a highlight.
DrawCall(pn, size, rect, resolved) ==
    [page |-> pn,
     x |-> rect.left,
     y |-> Minus(Minus(Frac(size.height, 1), rect.top), rect.height),
     width |-> rect.width,
     height |-> rect.height,
     color |-> resolved.color,
     opacity |-> resolved.opacity]

\* The calls of the inner loop, one for each rectangle in order.
DrawCalls(h, size) ==
    [j \in 1..Len(h.rects) |-> DrawCall(h.pageNumber, size, h.rects[j], ResolveColor(h.color))]

ExportRespond(status) == [exportRequest EXCEPT !.pc = "responded", !.status = status]

\* POST export-pdf up to the loop: the body is read and the document loaded.
ExportLoad ==
    /\ exportRequest.pc = "sent"
    /\ LET body == exportRequest.body
       IN  exportRequest' =
               IF ~body.parsable THEN ExportRespond(500)
               ELSE IF body.pdfData = NoPdfData \/ ~body.hasHighlights THEN ExportRespond(400)
               ELSE IF FromBase64(body.pdfData) = Garbage THEN ExportRespond(500)
               ELSE [exportRequest EXCEPT !.pc = "drawing"]
    /\ UNCHANGED <<editorVars, browserVars, serverVars, isExporting, restOfExport>>

\* One turn of the loop over the highlights. A highlight without a rects
\* property makes the inner loop throw, and the catch answers.
ExportHighlight ==
    /\ exportRequest.pc = "drawing"
    /\ exportRequest.idx <= Len(exportRequest.body.highlights)
    /\ LET highlight == exportRequest.body.highlights[exportRequest.idx]
           pages == PageSizes(FromBase64(exportRequest.body.pdfData))
       IN  exportRequest' =
               IF InvalidPage(highlight.pageNumber, Len(pages))
               THEN [exportRequest EXCEPT !.idx = @ + 1]
               ELSE IF "rects" \notin DOMAIN highlight
               THEN ExportRespond(500)
               ELSE [exportRequest EXCEPT
                        !.idx = @ + 1,
                        !.draws = @ \o DrawCalls(highlight, pages[highlight.pageNumber])]
    /\ UNCHANGED <<editorVars, browserVars, serverVars, isExporting, restOfExport>>

\* A serialization that loses what was drawn.
SavedWithoutDraws(source, draws) == [kind |-> "pdf", source |-> source, draws |-> <<>>]

\* pdfDoc.save(): the loaded document with everything drawn into it.
SavedDocument(source, draws) == [kind |-> "pdf", source |-> source, draws |-> draws]

\* After the loop: pdfDoc.save() and the 200 response with the document.
ExportSave ==
    /\ exportRequest.pc = "drawing"
    /\ exportRequest.idx > Len(exportRequest.body.highlights)
    /\ exportRequest' =
           [ExportRespond(200) EXCEPT
               !.output = SavedDocument(FromBase64(exportRequest.body.pdfData),
                                        exportRequest.draws)]
    /\ UNCHANGED <<editorVars, browserVars, serverVars, isExporting, restOfExport>>

\* --------------------------------------------------------- editor: export
\* An Export button that waits for the highlights to be saved.
ExportButtonWhenSaved ==
    /\ ToolbarShown
    /\ file # Null
    /\ ~isLoadingPdf
    /\ ~isExporting
    /\ Len(highlights) > 0
    /\ currentPdfId # Null
    /\ ~hasUnsavedChanges

\* The Export button of the toolbar and its disabled attribute.
ExportButtonEnabled ==
    /\ ToolbarShown
    /\ file # Null
    /\ ~isLoadingPdf
    /\ ~isExporting
    /\ Len(highlights) > 0

\* highlights.map(h => ({ id, pageNumber, rects, selectedText, color }))
ExportPayloadHighlights(hs) ==
    [i \in 1..Len(hs) |->
        [id |-> hs[i].id, pageNumber |-> hs[i].page_number, rects |-> hs[i].rects,
         selectedText |-> hs[i].selected_text, color |-> hs[i].color]]

\* The click: the handler starts with the file and the highlights of the
\* render it was created in, and waits for the bytes of the file.
handleExportPdf ==
    /\ ExportButtonEnabled
    /\ exportRequest = NoExport
    /\ isExporting' = TRUE
    /\ exportRequest' = [pc |-> "reading", owner |-> "editor", file |-> file,
                         highlights |-> highlights]
    /\ UNCHANGED <<editorVars, browserVars, serverVars, restOfExport>>

\* The bytes arrive and the export request is sent, or reading them fails and
\* the handler alerts.
exportFileRead(ok) ==
    /\ exportRequest.pc = "reading"
    /\ IF ok
       THEN /\ exportRequest' =
                   NewExport("editor",
                             ExportBody(ToBase64(exportRequest.file),
                                        ExportPayloadHighlights(exportRequest.highlights)))
            /\ UNCHANGED isExporting
       ELSE /\ exportRequest' = NoExport
            /\ isExporting' = FALSE
    /\ UNCHANGED <<editorVars, browserVars, serverVars, restOfExport>>

\* The response: the document is downloaded, or the error alerted.
exportResponse ==
    /\ exportRequest.pc = "responded"
    /\ exportRequest.owner = "editor"
    /\ exportRequest' = NoExport
    /\ isExporting' = FALSE
    /\ UNCHANGED <<editorVars, browserVars, serverVars, restOfExport>>

\* The export fetch rejects.
exportNetworkError ==
    /\ exportRequest.pc \in {"sent", "drawing"}
    /\ exportRequest.owner = "editor"
    /\ exportRequest' = NoExport
    /\ isExporting' = FALSE
    /\ UNCHANGED <<editorVars, browserVars, serverVars, restOfExport>>

\* ------------------------------------------------- server: upload-pdf
PdfType == "application/pdf"
FileNames == {"a.pdf", "b c.pdf"}
FileSize(name) == IF name = "a.pdf" THEN 100 ELSE 200

\* name.replace(/\s+/g, '_')
Underscored(name) == IF name = "b c.pdf" THEN "b_c.pdf" ELSE name

\* `${Date.now()}-${name with its whitespace replaced}`
StorageFileName(t, name) == <<t, Underscored(name)>>

\* A storagePath that is absent or the empty string.
NoPath == <<>>

\* The multipart form of an upload: hasFile is FALSE when it has no pdfFile,
\* parsable is FALSE when request.formData() throws on the body.
UploadForm(hasFile, type, name) ==
    [parsable |-> TRUE, hasFile |-> hasFile, type |-> type, name |-> name,
     size |-> FileSize(name)]

\* `steps` and `before` are history fields, read by no action: the store calls
\* the handler has made, in order, each with its outcome, and the pdfs table
\* as the request found it.
NewUpload(form) ==
    [pc |-> "sent", route |-> "upload", form |-> form, path |-> NoPath, status |-> 0,
     steps |-> <<>>, before |-> pdfsTable]

Step(call, ok) == [call |-> call, ok |-> ok]

FileRespond(status, steps) ==
    [fileRequest EXCEPT !.pc = "responded", !.status = status, !.steps = @ \o steps]

IdsOfPdfs == {pdfsTable[i].id : i \in 1..Len(pdfsTable)}

pdfMetadata(id, form, path) ==
    [id |-> id, filename |-> form.name, storage_object_path |-> path,
     content_type |-> form.type, file_size |-> form.size]

\* An upload with upsert: true, which writes over the blob of the same path.
RefusedOnlyByTheStore(path, stOk) == ~stOk

\* .upload(storageFileName, fileBuffer, { upsert: false }) returns an error:
\* the store does not carry it out, or the path is taken.
UploadRefused(path, stOk) == ~stOk \/ path \in blobStore

\* POST upload-pdf up to the blob upload. t: what Date.now() reads; stOk: the
\* blob store carries the upload out (it refuses an existing path: upsert false).
UploadStorage(t, stOk) ==
    /\ fileRequest.pc = "sent"
    /\ fileRequest.route = "upload"
    /\ LET form == fileRequest.form
           path == StorageFileName(t, form.name)
       IN  IF ~form.parsable
           THEN /\ fileRequest' = FileRespond(500, <<>>)
                /\ UNCHANGED blobStore
           ELSE IF ~form.hasFile \/ form.type # PdfType
           THEN /\ fileRequest' = FileRespond(400, <<>>)
                /\ UNCHANGED blobStore
           ELSE IF UploadRefused(path, stOk)
           THEN /\ fileRequest' = FileRespond(500, <<Step("upload", FALSE)>>)
                /\ UNCHANGED blobStore
           ELSE /\ blobStore' = blobStore \cup {path}
                /\ fileRequest' = [fileRequest EXCEPT !.pc = "stored", !.path = path,
                                                      !.steps = @ \o <<Step("upload", TRUE)>>]
    /\ UNCHANGED <<editorVars, browserVars, serverVars, pdfsTable, restOfFiles>>

\* The insert of the pdfs row. id: the key the row store assigns, none that a
\* row already has; dbOk: the row store carries the insert out.
UploadInsert(id, dbOk) ==
    /\ fileRequest.pc = "stored"
    /\ id \notin IdsOfPdfs
    /\ IF dbOk
       THEN /\ pdfsTable' = Append(pdfsTable, pdfMetadata(id, fileRequest.form, fileRequest.path))
            /\ fileRequest' = FileRespond(201, <<Step("insert", TRUE)>>)
       ELSE /\ UNCHANGED pdfsTable
            /\ fileRequest' = [fileRequest EXCEPT !.pc = "insertFailed",
                                                  !.steps = @ \o <<Step("insert", FALSE)>>]
    /\ UNCHANGED <<editorVars, browserVars, serverVars, blobStore, restOfFiles>>

\* After a failed insert: the blob's removal is awaited, its result not read.
UploadRollback(stOk) ==
    /\ fileRequest.pc = "insertFailed"
    /\ blobStore' = IF stOk THEN blobStore \ {fileRequest.path} ELSE blobStore
    /\ fileRequest' = FileRespond(500, <<Step("remove", stOk)>>)
    /\ UNCHANGED <<editorVars, browserVars, serverVars, pdfsTable, restOfFiles>>

\* ------------------------------------------------- server: delete-pdf
\* The JSON body of a delete: pdfId Null and storagePath NoPath stand for a
\* missing or empty property.
DeleteBody(parsable, pdfId, storagePath) ==
    [parsable |-> parsable, pdfId |-> pdfId, storagePath |-> storagePath]

NewDelete(body) ==
    [pc |-> "sent", route |-> "delete", body |-> body, status |-> 0, steps |-> <<>>]

\* A handler that reports success whatever the pdfs delete returned.
StatusIgnoringDeleteError(dbOk) == 200

\* The status after the delete of the pdfs row.
StatusAfterPdfDelete(dbOk) == IF dbOk THEN 200 ELSE 500

\* .from('pdfs').delete().eq('id', pdfId)
DeletePdfRows(table, pdfId) == LET Keep(row) == row.id # pdfId IN SelectSeq(table, Keep)

\* A check that forgets the storagePath.
MissingPdfIdOnly(body) == body.pdfId = Null

\* !pdfId || !storagePath
MissingPdfIdOrStoragePath(body) == body.pdfId = Null \/ body.storagePath = NoPath

\* DELETE delete-pdf up to its first store call: the body is read and checked
\* and the highlights of the document are deleted; an error is only logged.
DeleteHighlights(dbOk) ==
    /\ fileRequest.pc = "sent"
    /\ fileRequest.route = "delete"
    /\ LET body == fileRequest.body
       IN  IF ~body.parsable \/ MissingPdfIdOrStoragePath(body)
           THEN /\ fileRequest' = FileRespond(400, <<>>)
                /\ UNCHANGED highlightsTable
           ELSE /\ highlightsTable' = IF dbOk THEN DeleteRows(highlightsTable, body.pdfId)
                                      ELSE highlightsTable
                /\ fileRequest' = [fileRequest EXCEPT !.pc = "highlights",
                                                      !.steps = @ \o <<Step("highlights", dbOk)>>]
    /\ UNCHANGED <<editorVars, browserVars, requests, pdfsTable, blobStore, restOfFiles>>

\* The blob is removed; an error is only logged.
DeleteStorage(stOk) ==
    /\ fileRequest.pc = "highlights"
    /\ blobStore' = IF stOk THEN blobStore \ {fileRequest.body.storagePath} ELSE blobStore
    /\ fileRequest' = [fileRequest EXCEPT !.pc = "blob", !.steps = @ \o <<Step("blob", stOk)>>]
    /\ UNCHANGED <<editorVars, browserVars, serverVars, pdfsTable, restOfFiles>>

\* The pdfs row is deleted and the handler answers.
DeletePdfRow(dbOk) ==
    /\ fileRequest.pc = "blob"
    /\ pdfsTable' = IF dbOk THEN DeletePdfRows(pdfsTable, fileRequest.body.pdfId) ELSE pdfsTable
    /\ fileRequest' = FileRespond(StatusAfterPdfDelete(dbOk), <<Step("pdfs", dbOk)>>)
    /\ UNCHANGED <<editorVars, browserVars, serverVars, blobStore, restOfFiles>>

\* ------------------------------------------------------------------ start
\* The component mounted without props, nothing stored, nothing in flight.
Init ==
    /\ props = Null
    /\ file = Null
    /\ currentPdfId = Null
    /\ numPages = 0
    /\ pageNumber = 1
    /\ highlights = <<>>
    /\ highlightedPages = {}
    /\ hasUnsavedChanges = FALSE
    /\ isSyncing = FALSE
    /\ isLoadingPdf = FALSE
    /\ pdfLoadError = Null
    /\ scale = DefaultScale
    /\ selectedHighlightColor = YELLOW
    /\ docLoaded = FALSE
    /\ observed = {}
    /\ selection = NoSelection
    /\ now = 0
    /\ highlightsTable = <<>>
    /\ requests = [r \in ReqIds |-> NoReq]
    /\ isExporting = FALSE
    /\ exportRequest = NoExport
    /\ twice = NoTwice
    /\ pdfsTable = <<>>
    /\ blobStore = {}
    /\ fileRequest = NoFileRequest
    /\ scrollTarget = 0
    /\ pageThumbnails = NoThumbnails
    /\ generatingThumbnails = {}
    /\ thumbnailRenders = <<>>
    /\ pdfDocProxy = Null
    /\ pageMounted = FALSE
    /\ isLoading = FALSE
    /\ selectedFile = Null
    /\ pdfFiles = <<>>
    /\ listRequests = <<>>

\* ------------------------------------------------- the editing session
\* One editor against the server: documents are opened by props or from a
\* local file, highlighted, saved and loaded.
Next ==
    \/ \E p \in {"A", Null} : PropsChange(p)
    \/ handleFileChange("note.pdf")
    \/ onDocumentLoadSuccess
    \/ onDocumentLoadError
    \/ \E sel \in {SelLine, NoSelection} : Select(sel)
    \/ \E entries \in SingleEntries(observed) : observerCallback(entries)
    \/ addHighlight("r1")
    \/ \E id \in IdsOf(highlights) : handleDeleteHighlight(id)
    \/ handleSaveHighlights
    \/ \E r \in ReqIds : loadHighlightsResponse(r)
    \/ \E r \in ReqIds : saveHighlightsResponse(r)
    \/ \E r \in ReqIds : NetworkError(r)
    \/ \E r \in ReqIds, dbOk \in BOOLEAN : SyncDelete(r, dbOk)
    \/ \E r \in ReqIds, dbOk \in BOOLEAN : SyncInsert(r, dbOk)
    \/ \E r \in ReqIds, dbOk \in BOOLEAN : LoadHandler(r, dbOk)

Spec == Init /\ [][Next]_vars

\* ------------------------------------------------------ the capture session
\* The editor on a local file (no document identity, nothing sent): selecting,
\* choosing a colour, zooming in, scrolling, highlighting and deleting.
NextCapture ==
    \/ handleFileChange("paper.pdf")
    \/ onDocumentLoadSuccess
    \/ onDocumentLoadError
    \/ \E sel \in Selections : Select(sel)
    \/ \E c \in {YELLOW, RED} : setSelectedHighlightColor(c)
    \/ zoomIn
    \/ resetZoom
    \/ \E entries \in EntryPairs(observed) : observerCallback(entries)
    \/ addHighlight("r1")
    \/ \E id \in IdsOf(highlights) : handleDeleteHighlight(id)

SpecCapture == Init /\ [][NextCapture]_vars

\* -------------------------------------------------------- the sync endpoint
\* The pdf-highlights endpoint under requests of any clients, which may overlap.
SampleLine ==
    NewHighlight(1, "r1", 1, NewHighlightRects(SelLine.clientRects, PageRect(1), DefaultScale),
                 SelLine.text, YELLOW)
SampleMixed ==
    NewHighlight(2, "r2", 2, NewHighlightRects(SelMixed.clientRects, PageRect(2), DefaultScale),
                 SelMixed.text, RED)

SamplePayloads == {<<>>, <<SampleLine>>, <<SampleMixed, SampleLine>>}

\* Bodies a client can post: well-formed ones, and ones the handler refuses.
SyncBodies ==
    {SyncBody("A", hs) : hs \in SamplePayloads}
    \cup {SyncBody("B", <<SampleLine>>),
          [SyncBody("A", <<>>) EXCEPT !.parsable = FALSE],
          [SyncBody("A", <<SampleLine>>) EXCEPT !.pdfId = Null],
          [SyncBody("A", <<>>) EXCEPT !.isArray = FALSE]}

ClientPost(body) ==
    /\ FreeSlots # {}
    /\ requests' = Sent(NewRequest("POST", "client", body.pdfId, body))
    /\ UNCHANGED <<highlightsTable, editorVars, browserVars, otherVars>>

ClientGet(pdfId) ==
    /\ FreeSlots # {}
    /\ requests' = Sent(NewRequest("GET", "client", pdfId, Null))
    /\ UNCHANGED <<highlightsTable, editorVars, browserVars, otherVars>>

\* The client has its answer: the slot is free again.
ClientDone(r) ==
    /\ Responded(r)
    /\ requests[r].owner = "client"
    /\ requests' = [requests EXCEPT ![r] = NoReq]
    /\ UNCHANGED <<highlightsTable, editorVars, browserVars, otherVars>>

NextSync ==
    \/ \E body \in SyncBodies : ClientPost(body)
    \/ \E pdfId \in {"A", Null} : ClientGet(pdfId)
    \/ \E r \in ReqIds : ClientDone(r)
    \/ \E r \in ReqIds, dbOk \in BOOLEAN : SyncDelete(r, dbOk)
    \/ \E r \in ReqIds, dbOk \in BOOLEAN : SyncInsert(r, dbOk)
    \/ \E r \in ReqIds, dbOk \in BOOLEAN : LoadHandler(r, dbOk)

SpecSync == Init /\ [][NextSync]_vars

\* ------------------------------------------------------ the export endpoint
\* The export-pdf endpoint under the requests of any client, one at a time.
StoredRect(t, l, w, h) ==
    [top |-> Frac(t, 1), left |-> Frac(l, 1), width |-> Frac(w, 1), height |-> Frac(h, 1)]

RectInside == StoredRect(10, 5, 100, 20)
RectHalf == [StoredRect(20, 10, 50, 10) EXCEPT !.top = Frac(41, 2)]
\* Starts left of the page, is wider than it and ends below it.
RectOutside == StoredRect(790, -5, 700, 20)

ExportHighlightOf(id, pn, rects, color) ==
    [id |-> id, pageNumber |-> pn, rects |-> rects, selectedText |-> "text", color |-> color]

ExportSamples ==
    {ExportHighlightOf("e1", 1, <<RectInside>>, YELLOW),
     ExportHighlightOf("e2", 2, <<RectHalf, RectOutside>>, RgbOpaque),
     ExportHighlightOf("e3", 3, <<RectInside>>, RED),
     ExportHighlightOf("e4", 0, <<RectInside, RectHalf>>, NoColor),
     ExportHighlightOf("e5", 1, <<RectOutside>>, RgbaOver),
     ExportHighlightOf("e6", 2, <<RectInside>>, HexRed),
     ExportHighlightOf("e7", 1, <<RectHalf>>, RgbaHalf),
     ExportHighlightOf("e8", -1, <<RectHalf>>, BLUE),
     ExportHighlightOf("e9", 2, <<RectHalf>>, NoColor),
     ExportHighlightOf("e10", 1, <<RectInside>>, RgbaNoClose),
     ExportHighlightOf("e11", 2, <<RectInside>>, RgbaDot)}

\* The highlight sequences of at most MaxExport samples.
RECURSIVE SeqsUpTo(_, _)
SeqsUpTo(S, k) ==
    IF k = 0 THEN {<<>>}
    ELSE SeqsUpTo(S, k - 1) \cup {Append(q, x) : q \in SeqsUpTo(S, k - 1), x \in S}

\* Bodies a client can post: well-formed ones for the two-page document, and
\* ones the handler refuses.
ExportBodies ==
    {ExportBody(ToBase64("paper.pdf"), hs) : hs \in SeqsUpTo(ExportSamples, MaxExport)}
    \cup {[ExportBody(ToBase64("paper.pdf"), <<>>) EXCEPT !.parsable = FALSE],
          ExportBody(NoPdfData, <<>>),
          [ExportBody(ToBase64("paper.pdf"), <<>>) EXCEPT !.hasHighlights = FALSE],
          ExportBody(ToBase64(Garbage), <<>>)}

ClientExport(body) ==
    /\ exportRequest = NoExport
    /\ exportRequest' = NewExport("client", body)
    /\ UNCHANGED <<editorVars, browserVars, serverVars, isExporting, restOfExport>>

\* The client has its answer.
ClientExportDone ==
    /\ exportRequest.pc = "responded"
    /\ exportRequest.owner = "client"
    /\ exportRequest' = NoExport
    /\ UNCHANGED <<editorVars, browserVars, serverVars, isExporting, restOfExport>>

NextExportRoute ==
    \/ \E body \in ExportBodies : ClientExport(body)
    \/ ClientExportDone
    \/ ExportLoad
    \/ ExportHighlight
    \/ ExportSave

SpecExportRoute == Init /\ [][NextExportRoute]_vars

\* -------------------------------------------------- exports that fail
\* The export endpoint under requests whose document cannot be loaded or
\* whose highlights make the loop throw, and requests that succeed.
NoRectsHighlight(id, pn) == [id |-> id, pageNumber |-> pn, selectedText |-> "text", color |-> YELLOW]

FailingSamples ==
    {ExportHighlightOf("e1", 1, <<RectInside>>, YELLOW),
     ExportHighlightOf("e2", 2, <<RectHalf, RectOutside>>, RgbOpaque),
     NoRectsHighlight("e12", 1),
     NoRectsHighlight("e13", 3)}

FailingBodies ==
    {ExportBody(ToBase64(f), hs) : f \in {"paper.pdf", Garbage},
                                   hs \in SeqsUpTo(FailingSamples, MaxExport)}

NextExportFailure ==
    \/ \E body \in FailingBodies : ClientExport(body)
    \/ ClientExportDone
    \/ ExportLoad
    \/ ExportHighlight
    \/ ExportSave

SpecExportFailure == Init /\ [][NextExportFailure]_vars

\* ------------------------------------------------------ the zooming session
\* The editor on a local one-page file: selecting, zooming in and out over
\* the whole range, and highlighting.
NextZoom ==
    \/ handleFileChange("note.pdf")
    \/ onDocumentLoadSuccess
    \/ \E sel \in TextSelections : Select(sel)
    \/ zoomIn
    \/ zoomOut
    \/ resetZoom
    \/ addHighlight("r1")

SpecZoom == Init /\ [][NextZoom]_vars

\* -------------------------------------------- the same sync, twice in a row
\* A client posts the same body for document A a second time as soon as the
\* first post has answered success, reading the document's rows in between;
\* other clients sync document B meanwhile.
TwiceSlot == CHOOSE r \in ReqIds : requests[r] # NoReq /\ requests[r].owner = "twice"

TwiceFirst(body) ==
    /\ twice = NoTwice
    /\ FreeSlots # {}
    /\ requests' = Sent(NewRequest("POST", "twice", body.pdfId, body))
    /\ twice' = [phase |-> "first", body |-> body, afterFirst |-> <<>>]
    /\ UNCHANGED <<highlightsTable, editorVars, browserVars, restOfTwice>>

\* The first post has answered: on success the client reads the rows.
TwiceBetween ==
    /\ twice.phase = "first"
    /\ Responded(TwiceSlot)
    /\ twice' = IF ResponseOk(TwiceSlot)
                THEN [twice EXCEPT !.phase = "between",
                                   !.afterFirst = RowsOf(highlightsTable, twice.body.pdfId)]
                ELSE NoTwice
    /\ requests' = [requests EXCEPT ![TwiceSlot] = NoReq]
    /\ UNCHANGED <<highlightsTable, editorVars, browserVars, restOfTwice>>

TwiceSecond ==
    /\ twice.phase = "between"
    /\ FreeSlots # {}
    /\ requests' = Sent(NewRequest("POST", "twice", twice.body.pdfId, twice.body))
    /\ twice' = [twice EXCEPT !.phase = "second"]
    /\ UNCHANGED <<highlightsTable, editorVars, browserVars, restOfTwice>>

\* The second post has answered.
TwiceAnswered ==
    /\ twice.phase = "second"
    /\ Responded(TwiceSlot)
    /\ twice' = [twice EXCEPT !.phase = IF ResponseOk(TwiceSlot) THEN "done" ELSE "failed"]
    /\ requests' = [requests EXCEPT ![TwiceSlot] = NoReq]
    /\ UNCHANGED <<highlightsTable, editorVars, browserVars, restOfTwice>>

TwiceAgain ==
    /\ twice.phase \in {"done", "failed"}
    /\ twice' = NoTwice
    /\ UNCHANGED <<serverVars, editorVars, browserVars, restOfTwice>>

NextTwice ==
    \/ \E hs \in SamplePayloads : TwiceFirst(SyncBody("A", hs))
    \/ TwiceBetween
    \/ TwiceSecond
    \/ TwiceAnswered
    \/ TwiceAgain
    \/ \E hs \in {<<>>, <<SampleLine>>} : ClientPost(SyncBody("B", hs))
    \/ \E r \in ReqIds : ClientDone(r)
    \/ \E r \in ReqIds, dbOk \in BOOLEAN : SyncDelete(r, dbOk)
    \/ \E r \in ReqIds, dbOk \in BOOLEAN : SyncInsert(r, dbOk)

SpecTwice == Init /\ [][NextTwice]_vars

\* ------------------------------------------------------ the sidebar list
\* The editor with document A open and a sequence of highlights loaded from
\* the store (which holds what was posted to it): the list is grouped at each
\* render, highlights are removed one by one.
GroupSample(t, pn, top) ==
    [id |-> NewId(t, "r1"), page_number |-> pn,
     rects |-> <<[StoredRect(0, 10, 50, 10) EXCEPT !.top = top]>>,
     selected_text |-> "text", color |-> YELLOW]

GroupSamples ==
    {GroupSample(1, 1, Frac(40, 1)), GroupSample(2, 1, Frac(20, 1)),
     GroupSample(3, 1, Frac(40, 1)), GroupSample(4, 2, Frac(41, 2)),
     GroupSample(5, 10, Frac(5, 1)), GroupSample(6, 2, Frac(-5, 1))}

\* The sequences of at most MaxGroup samples, each sample at most once.
LoadedSequences ==
    {hs \in SeqsUpTo(GroupSamples, MaxGroup) :
        \A i, j \in 1..Len(hs) : i # j => hs[i] # hs[j]}

InitGroup ==
    /\ props = "A"
    /\ file = Url("A")
    /\ currentPdfId = "A"
    /\ numPages = DocNumPages(Url("A"))
    /\ pageNumber = 1
    /\ highlights \in LoadedSequences
    /\ highlightedPages = PagesOf(highlights)
    /\ hasUnsavedChanges = FALSE
    /\ isSyncing = FALSE
    /\ isLoadingPdf = FALSE
    /\ pdfLoadError = Null
    /\ scale = DefaultScale
    /\ selectedHighlightColor = YELLOW
    /\ docLoaded = TRUE
    /\ observed = 1..DocNumPages(Url("A"))
    /\ selection = NoSelection
    /\ now = 0
    /\ highlightsTable = <<>>
    /\ requests = [r \in ReqIds |-> NoReq]
    /\ isExporting = FALSE
    /\ exportRequest = NoExport
    /\ twice = NoTwice
    /\ pdfsTable = <<>>
    /\ blobStore = {}
    /\ fileRequest = NoFileRequest
    /\ scrollTarget = 0
    /\ pageThumbnails = [p \in 1..DocNumPages(Url("A")) |-> Url("A")]
    /\ generatingThumbnails = {}
    /\ thumbnailRenders = <<>>
    /\ pdfDocProxy = Url("A")
    /\ pageMounted = FALSE
    /\ isLoading = FALSE
    /\ selectedFile = Null
    /\ pdfFiles = <<>>
    /\ listRequests = <<>>

NextGroup == \E id \in IdsOf(highlights) : handleDeleteHighlight(id)

SpecGroup == InitGroup /\ [][NextGroup]_vars

\* ----------------------------------------------------- the export session
\* One editor that opens document A or a local file, highlights, saves and
\* exports, against a store that answers.
NextExport ==
    \/ \E p \in {"A", Null} : PropsChange(p)
    \/ handleFileChange("note.pdf")
    \/ onDocumentLoadSuccess
    \/ Select(SelLine)
    \/ addHighlight("r1")
    \/ \E id \in IdsOf(highlights) : handleDeleteHighlight(id)
    \/ handleSaveHighlights
    \/ \E r \in ReqIds : loadHighlightsResponse(r)
    \/ \E r \in ReqIds : saveHighlightsResponse(r)
    \/ \E r \in ReqIds : SyncDelete(r, TRUE)
    \/ \E r \in ReqIds : SyncInsert(r, TRUE)
    \/ \E r \in ReqIds : LoadHandler(r, TRUE)
    \/ handleExportPdf
    \/ \E ok \in BOOLEAN : exportFileRead(ok)
    \/ ExportLoad
    \/ ExportHighlight
    \/ ExportSave
    \/ exportResponse
    \/ exportNetworkError

SpecExport == Init /\ [][NextExport]_vars

\* ------------------------------------------------ the stored documents
\* The upload and delete endpoints under the requests of a client, one at a
\* time, over a highlights table that earlier syncs have filled; any call of
\* the row store or the blob store may fail.
StoredTables ==
    {<<>>,
     HighlightsToInsert("A", <<SampleLine>>),
     HighlightsToInsert("A", <<SampleLine>>) \o HighlightsToInsert("B", <<SampleMixed, SampleLine>>)}

UploadForms ==
    {UploadForm(TRUE, PdfType, name) : name \in FileNames}
        \cup {UploadForm(FALSE, PdfType, "a.pdf"), UploadForm(TRUE, "text/plain", "a.pdf")}

StoragePaths == {StorageFileName(t, name) : t \in 1..MaxStamp, name \in FileNames}

DeleteBodies ==
    {DeleteBody(TRUE, id, path) : id \in PdfIds \cup {Null}, path \in StoragePaths \cup {NoPath}}
        \cup {DeleteBody(FALSE, Null, NoPath)}

InitFiles ==
    /\ props = Null
    /\ file = Null
    /\ currentPdfId = Null
    /\ numPages = 0
    /\ pageNumber = 1
    /\ highlights = <<>>
    /\ highlightedPages = {}
    /\ hasUnsavedChanges = FALSE
    /\ isSyncing = FALSE
    /\ isLoadingPdf = FALSE
    /\ pdfLoadError = Null
    /\ scale = DefaultScale
    /\ selectedHighlightColor = YELLOW
    /\ docLoaded = FALSE
    /\ observed = {}
    /\ selection = NoSelection
    /\ now = 0
    /\ highlightsTable \in StoredTables
    /\ requests = [r \in ReqIds |-> NoReq]
    /\ isExporting = FALSE
    /\ exportRequest = NoExport
    /\ twice = NoTwice
    /\ pdfsTable = <<>>
    /\ blobStore = {}
    /\ fileRequest = NoFileRequest
    /\ scrollTarget = 0
    /\ pageThumbnails = NoThumbnails
    /\ generatingThumbnails = {}
    /\ thumbnailRenders = <<>>
    /\ pdfDocProxy = Null
    /\ pageMounted = FALSE
    /\ isLoading = FALSE
    /\ selectedFile = Null
    /\ pdfFiles = <<>>
    /\ listRequests = <<>>

ClientUpload(form) ==
    /\ fileRequest = NoFileRequest
    /\ fileRequest' = NewUpload(form)
    /\ UNCHANGED <<editorVars, browserVars, serverVars, pdfsTable, blobStore, restOfFiles>>

ClientDelete(body) ==
    /\ fileRequest = NoFileRequest
    /\ fileRequest' = NewDelete(body)
    /\ UNCHANGED <<editorVars, browserVars, serverVars, pdfsTable, blobStore, restOfFiles>>

ClientFileDone ==
    /\ fileRequest.pc = "responded"
    /\ fileRequest' = NoFileRequest
    /\ UNCHANGED <<editorVars, browserVars, serverVars, pdfsTable, blobStore, restOfFiles>>

NextFiles ==
    \/ \E form \in UploadForms : ClientUpload(form)
    \/ \E body \in DeleteBodies : ClientDelete(body)
    \/ ClientFileDone
    \/ \E t \in 1..MaxStamp, stOk \in BOOLEAN : UploadStorage(t, stOk)
    \/ \E id \in PdfIds, dbOk \in BOOLEAN : UploadInsert(id, dbOk)
    \/ \E stOk \in BOOLEAN : UploadRollback(stOk)
    \/ \E dbOk \in BOOLEAN : DeleteHighlights(dbOk)
    \/ \E stOk \in BOOLEAN : DeleteStorage(stOk)
    \/ \E dbOk \in BOOLEAN : DeletePdfRow(dbOk)

SpecFiles == InitFiles /\ [][NextFiles]_vars

\* ------------------------------------------------------ all the endpoints
\* A client that calls the five endpoints one request at a time, with bodies
\* that pass and bodies that fail each endpoint's checks, over stores whose
\* calls may fail.
Quiet ==
    /\ \A r \in ReqIds : requests[r] = NoReq
    /\ exportRequest = NoExport
    /\ fileRequest = NoFileRequest

BadUploadForms ==
    {UploadForm(FALSE, PdfType, "a.pdf"), UploadForm(TRUE, "text/plain", "a.pdf"),
     [UploadForm(TRUE, PdfType, "a.pdf") EXCEPT !.parsable = FALSE]}

BadDeleteBodies ==
    {DeleteBody(TRUE, Null, StorageFileName(1, "a.pdf")), DeleteBody(TRUE, "A", NoPath),
     DeleteBody(FALSE, Null, NoPath)}

BadSyncBodies ==
    {[SyncBody("A", <<>>) EXCEPT !.parsable = FALSE],
     [SyncBody("A", <<SampleLine>>) EXCEPT !.pdfId = Null],
     [SyncBody("A", <<>>) EXCEPT !.isArray = FALSE]}

BadExportBodies ==
    {[ExportBody(ToBase64("paper.pdf"), <<>>) EXCEPT !.parsable = FALSE],
     ExportBody(NoPdfData, <<ExportHighlightOf("e1", 1, <<RectInside>>, YELLOW)>>),
     [ExportBody(ToBase64("paper.pdf"), <<>>) EXCEPT !.hasHighlights = FALSE]}

NextEndpoints ==
    \/ /\ Quiet
       /\ \E form \in BadUploadForms \cup {UploadForm(TRUE, PdfType, "a.pdf")} : ClientUpload(form)
    \/ /\ Quiet
       /\ \E body \in BadDeleteBodies \cup {DeleteBody(TRUE, "A", StorageFileName(1, "a.pdf"))} :
              ClientDelete(body)
    \/ /\ Quiet
       /\ \E body \in BadSyncBodies \cup {SyncBody("A", <<SampleLine>>), SyncBody("B", <<SampleMixed>>)} :
              ClientPost(body)
    \/ /\ Quiet
       /\ \E pdfId \in {"A", Null} : ClientGet(pdfId)
    \/ /\ Quiet
       /\ \E body \in BadExportBodies
                 \cup {ExportBody(ToBase64("paper.pdf"), <<ExportHighlightOf("e1", 1, <<RectInside>>, YELLOW)>>)} :
              ClientExport(body)
    \/ ClientFileDone
    \/ \E r \in ReqIds : ClientDone(r)
    \/ ClientExportDone
    \/ \E stOk \in BOOLEAN : UploadStorage(1, stOk)
    \/ \E id \in PdfIds, dbOk \in BOOLEAN : UploadInsert(id, dbOk)
    \/ \E stOk \in BOOLEAN : UploadRollback(stOk)
    \/ \E dbOk \in BOOLEAN : DeleteHighlights(dbOk)
    \/ \E stOk \in BOOLEAN : DeleteStorage(stOk)
    \/ \E dbOk \in BOOLEAN : DeletePdfRow(dbOk)
    \/ \E r \in ReqIds, dbOk \in BOOLEAN : SyncDelete(r, dbOk)
    \/ \E r \in ReqIds, dbOk \in BOOLEAN : SyncInsert(r, dbOk)
    \/ \E r \in ReqIds, dbOk \in BOOLEAN : LoadHandler(r, dbOk)
    \/ ExportLoad
    \/ ExportHighlight
    \/ ExportSave

SpecEndpoints == Init /\ [][NextEndpoints]_vars

\* ------------------------------------------------ the navigating session
\* The editor on local files of one and two pages, two of them of two pages:
\* navigation by the buttons and to any page number (a sidebar entry may name
\* a page the document has not), visibility notifications, highlighting.
NavTargets == 0..3
OpenableFiles == LocalFiles \cup {"thesis.pdf"}

NextNavigate ==
    \/ \E f \in OpenableFiles : handleFileChange(f)
    \/ onDocumentLoadSuccess
    \/ onDocumentLoadError
    \/ Select(SelLine)
    \/ addHighlight("r1")
    \/ \E entries \in EntryPairs(observed) : observerCallback(entries)
    \/ \E num \in NavTargets : goToPage(num)
    \/ goToPrevPage
    \/ goToNextPage

SpecNavigate == Init /\ [][NextNavigate]_vars

\* ------------------------------------------------------ removing by id
\* The editor with document A open and highlights loaded: the remove handler
\* is called with the id of any of the samples, listed or not.
NextRemove == \E h \in GroupSamples : handleDeleteHighlight(h.id)

SpecRemove == InitGroup /\ [][NextRemove]_vars

\* ---------------------------------------------------- the failing session
\* One editor on document A whose loads, saves and exports may fail: the row
\* store refuses calls, fetches reject, the file's bytes cannot be read.
NextFailing ==
    \/ \E p \in {"A", Null} : PropsChange(p)
    \/ onDocumentLoadSuccess
    \/ Select(SelLine)
    \/ addHighlight("r1")
    \/ handleSaveHighlights
    \/ \E r \in ReqIds : loadHighlightsResponse(r)
    \/ \E r \in ReqIds : saveHighlightsResponse(r)
    \/ \E r \in ReqIds : NetworkError(r)
    \/ \E r \in ReqIds, dbOk \in BOOLEAN : SyncDelete(r, dbOk)
    \/ \E r \in ReqIds, dbOk \in BOOLEAN : SyncInsert(r, dbOk)
    \/ \E r \in ReqIds, dbOk \in BOOLEAN : LoadHandler(r, dbOk)
    \/ handleExportPdf
    \/ \E ok \in BOOLEAN : exportFileRead(ok)
    \/ ExportLoad
    \/ ExportHighlight
    \/ ExportSave
    \/ exportResponse
    \/ exportNetworkError

SpecFailing == Init /\ [][NextFailing]_vars

\* -------------------------------------------------- the thumbnail session
\* The editor on local files of one and two pages, their thumbnails rendered
\* in the background: a rendering ends, with a thumbnail or without, at any
\* time after it started.
NextThumbnails ==
    \/ thumbnailEffect
    \/ EffectDone /\ \E f \in LocalFiles : handleFileChange(f)
    \/ EffectDone /\ onDocumentLoadSuccess
    \/ EffectDone /\ onDocumentLoadError
    \/ EffectDone /\ \E k \in 1..MaxRenders : thumbnailRendered(k)
    \/ EffectDone /\ \E k \in 1..MaxRenders : thumbnailFailed(k)

SpecThumbnails == Init /\ [][NextThumbnails]_vars

\* ------------------------------------------- one document's thumbnails
\* The user opens one local file and leaves it open, zooming now and then:
\* the effect runs whenever it has a page to render, and every rendering in
\* flight ends, with a thumbnail or without.
RenderEnds ==
    EffectDone /\ \E k \in 1..MaxRenders : thumbnailRendered(k) \/ thumbnailFailed(k)

NextRendering ==
    \/ thumbnailEffect
    \/ EffectDone /\ file = Null /\ \E f \in LocalFiles : handleFileChange(f)
    \/ EffectDone /\ onDocumentLoadSuccess
    \/ EffectDone /\ \E k \in 1..MaxRenders : thumbnailRendered(k)
    \/ EffectDone /\ \E k \in 1..MaxRenders : thumbnailFailed(k)
    \/ EffectDone /\ zoomOut

SpecRendering ==
    Init /\ [][NextRendering]_vars /\ WF_vars(thumbnailEffect) /\ WF_vars(RenderEnds)

\* ------------------------------------------- requests that get an outcome
\* The failing session in which every request gets an outcome: the server
\* takes each step of a request it has received unless the fetch has failed
\* before, the client takes up each answer, the bytes of the file arrive or
\* fail to.
ServerStep(r) ==
    \E dbOk \in BOOLEAN : SyncDelete(r, dbOk) \/ SyncInsert(r, dbOk) \/ LoadHandler(r, dbOk)

ClientStep(r) == loadHighlightsResponse(r) \/ saveHighlightsResponse(r)

ExportServerStep == ExportLoad \/ ExportHighlight \/ ExportSave

\* The endpoint is inside its loop over the highlights: ExportHighlight is
\* enabled. The loop is over a finite list, so a fair endpoint leaves it.
InsideExportLoop ==
    /\ exportRequest.pc = "drawing"
    /\ exportRequest.idx <= Len(exportRequest.body.highlights)

NextOutcome ==
    \/ currentPdfId = Null /\ PropsChange("A")
    \/ onDocumentLoadSuccess
    \/ Select(SelLine)
    \/ addHighlight("r1")
    \/ handleSaveHighlights
    \/ \E r \in ReqIds : ClientStep(r)
    \/ \E r \in ReqIds : NetworkError(r)
    \/ \E r \in ReqIds : ServerStep(r)
    \/ handleExportPdf
    \/ \E ok \in BOOLEAN : exportFileRead(ok)
    \/ ExportServerStep
    \/ exportResponse
    \/ exportNetworkError

SpecOutcome ==
    /\ Init
    /\ [][NextOutcome]_vars
    /\ \A r \in ReqIds : WF_vars(ServerStep(r)) /\ WF_vars(ClientStep(r))
    /\ WF_vars(\E ok \in BOOLEAN : exportFileRead(ok))
    /\ WF_vars(ExportLoad)
    /\ []<>~InsideExportLoop
    /\ WF_vars(ExportSave)
    /\ WF_vars(exportResponse)

\* ------------------------------------------------- the manage-files page
\* The page, its one upload or delete at a time at the endpoints above, and
\* its list requests; the user uploads one file, again and again. The list endpoint answers with the rows of the pdfs
\* table or with an error; a fetch that fails counts as an error answer.
MaxLists == 1

ListRequest == [pc |-> "sent", ok |-> FALSE, data |-> <<>>]

\* fetchPDFFiles up to its await, apart from setIsLoading(true): the fetch.
ListsAfterFetch == Append(listRequests, ListRequest)

\* The first render and its effect, which calls fetchPDFFiles.
mountPage ==
    /\ ~pageMounted
    /\ pageMounted' = TRUE
    /\ isLoading' = TRUE
    /\ listRequests' = ListsAfterFetch
    /\ UNCHANGED <<selectedFile, pdfFiles, editorVars, browserVars, serverVars, fileVars,
                   restOfPage>>

\* handleFileChange of the page's file input.
pageFileChange(f) ==
    /\ pageMounted
    /\ selectedFile' = f
    /\ UNCHANGED <<pageMounted, isLoading, pdfFiles, listRequests, editorVars, browserVars,
                   serverVars, fileVars, restOfPage>>

\* The submit button and the Delete buttons with their disabled attributes.
UploadButtonEnabled == pageMounted /\ ~isLoading /\ selectedFile # Null
DeleteButtonEnabled == pageMounted /\ ~isLoading

\* handleSubmit up to its await.
handleSubmit ==
    /\ UploadButtonEnabled
    /\ fileRequest = NoFileRequest
    /\ isLoading' = TRUE
    /\ fileRequest' = NewUpload(UploadForm(TRUE, PdfType, selectedFile))
    /\ UNCHANGED <<pageMounted, selectedFile, pdfFiles, listRequests, pdfsTable, blobStore,
                   editorVars, browserVars, serverVars, restOfPage>>

\* handleDeleteFile up to its await, the confirm dialog accepted.
handleDeleteFile(i) ==
    /\ DeleteButtonEnabled
    /\ i \in 1..Len(pdfFiles)
    /\ fileRequest = NoFileRequest
    /\ isLoading' = TRUE
    /\ fileRequest' = NewDelete(DeleteBody(TRUE, pdfFiles[i].id, pdfFiles[i].storage_object_path))
    /\ UNCHANGED <<pageMounted, selectedFile, pdfFiles, listRequests, pdfsTable, blobStore,
                   editorVars, browserVars, serverVars, restOfPage>>

\* response.ok
FileResponseOk == fileRequest.status \in {200, 201}

\* handleSubmit after its await. After an ok answer fetchPDFFiles() is called
\* and not awaited: it sets the flag and sends its request, and the handler's
\* last statement, setIsLoading(false), follows in the same turn.
submitResponse ==
    /\ pageMounted
    /\ fileRequest.pc = "responded"
    /\ fileRequest.route = "upload"
    /\ FileResponseOk => Len(listRequests) < MaxLists
    /\ selectedFile' = IF FileResponseOk THEN Null ELSE selectedFile
    /\ listRequests' = IF FileResponseOk THEN ListsAfterFetch ELSE listRequests
    /\ isLoading' = FALSE
    /\ fileRequest' = NoFileRequest
    /\ UNCHANGED <<pageMounted, pdfFiles, pdfsTable, blobStore, editorVars, browserVars,
                   serverVars, restOfPage>>

\* handleDeleteFile after its await, in the same way.
deleteResponse ==
    /\ pageMounted
    /\ fileRequest.pc = "responded"
    /\ fileRequest.route = "delete"
    /\ FileResponseOk => Len(listRequests) < MaxLists
    /\ listRequests' = IF FileResponseOk THEN ListsAfterFetch ELSE listRequests
    /\ isLoading' = FALSE
    /\ fileRequest' = NoFileRequest
    /\ UNCHANGED <<pageMounted, selectedFile, pdfFiles, pdfsTable, blobStore, editorVars,
                   browserVars, serverVars, restOfPage>>

\* The list request is answered.
ListAnswered(k, ok) ==
    /\ k \in 1..Len(listRequests)
    /\ listRequests[k].pc = "sent"
    /\ listRequests' = [listRequests EXCEPT
                           ![k] = [pc |-> "responded", ok |-> ok,
                                   data |-> IF ok THEN pdfsTable ELSE <<>>]]
    /\ UNCHANGED <<pageMounted, isLoading, selectedFile, pdfFiles, editorVars, browserVars,
                   serverVars, fileVars, restOfPage>>

\* fetchPDFFiles after its await.
listResponse(k) ==
    /\ k \in 1..Len(listRequests)
    /\ listRequests[k].pc = "responded"
    /\ pdfFiles' = IF listRequests[k].ok THEN listRequests[k].data ELSE pdfFiles
    /\ isLoading' = FALSE
    /\ listRequests' = Without(listRequests, k)
    /\ UNCHANGED <<pageMounted, selectedFile, editorVars, browserVars, serverVars, fileVars,
                   restOfPage>>

NextPage ==
    \/ mountPage
    \/ pageFileChange("a.pdf")
    \/ handleSubmit
    \/ \E i \in 1..Len(pdfFiles) : handleDeleteFile(i)
    \/ submitResponse
    \/ deleteResponse
    \/ \E k \in 1..MaxLists, ok \in BOOLEAN : ListAnswered(k, ok)
    \/ \E k \in 1..MaxLists : listResponse(k)
    \/ \E t \in 1..MaxStamp, stOk \in BOOLEAN : UploadStorage(t, stOk)
    \/ \E id \in PdfIds, dbOk \in BOOLEAN : UploadInsert(id, dbOk)
    \/ \E stOk \in BOOLEAN : UploadRollback(stOk)
    \/ \E dbOk \in BOOLEAN : DeleteHighlights(dbOk)
    \/ \E stOk \in BOOLEAN : DeleteStorage(stOk)
    \/ \E dbOk \in BOOLEAN : DeletePdfRow(dbOk)

SpecPage == Init /\ [][NextPage]_vars

\* ================================================================== claims
\* A step of the POST handler of request r.
SyncStep(r) ==
    /\ requests[r] # NoReq
    /\ requests[r].method = "POST"
    /\ requests[r].pc \in {"sent", "deleted"}
    /\ requests'[r].pc # requests[r].pc

\* The step in which the POST handler of request r answers 200.
SyncSucceeds(r) ==
    SyncStep(r) /\ requests'[r].pc = "responded" /\ requests'[r].status = 200

\* After the step, the rows of r's document are the rows of r's highlights.
RowsAreThePayload(r) ==
    RowsOf(highlightsTable', requests[r].pdfId)
        = HighlightsToInsert(requests[r].pdfId, requests[r].body.highlights)

\* The step leaves the rows of every document but r's as they were.
OtherDocumentsKept(r) ==
    \A d \in PdfIds \ {requests[r].pdfId} :
        RowsOf(highlightsTable', d) = RowsOf(highlightsTable, d)

\* C1 as stated: whenever a sync answers success, the rows of its document are
\* exactly the rows of its highlights, and no step of a sync changes the rows of
\* another document.
C1_SyncReplacesRows ==
    [][\A r \in ReqIds :
          /\ SyncSucceeds(r) => RowsAreThePayload(r)
          /\ SyncStep(r) => OtherDocumentsKept(r)]_vars

\* C1 amended: the same, for a sync that no other sync of the same document
\* overlapped.
C1_SyncReplacesRowsAlone ==
    [][\A r \in ReqIds :
          /\ (SyncSucceeds(r) /\ ~requests'[r].overlap) => RowsAreThePayload(r)
          /\ SyncStep(r) => OtherDocumentsKept(r)]_vars

\* A sync alone on its document has answered success: its two highlights have
\* replaced what was stored, and the other document's row is still there.
C1_Witness ==
    \E r \in ReqIds :
        /\ requests[r] # NoReq
        /\ requests[r].method = "POST"
        /\ requests[r].pc = "responded"
        /\ requests[r].status = 200
        /\ requests[r].last = "insert"
        /\ ~requests[r].overlap
        /\ requests[r].body = SyncBody("A", <<SampleMixed, SampleLine>>)
        /\ RowsOf(highlightsTable, "A") = HighlightsToInsert("A", <<SampleMixed, SampleLine>>)
        /\ RowsOf(highlightsTable, "B") = HighlightsToInsert("B", <<SampleLine>>)

\* The step in which the insert of request r is refused: the delete was carried
\* out, the handler answers, and nothing was inserted.
InsertFails(r) ==
    /\ SyncStep(r)
    /\ requests[r].pc = "deleted"
    /\ highlightsTable' = highlightsTable

\* C2 as stated: when the delete succeeds and the insert fails, the document has
\* no highlight rows and the request answers an error, not success.
C2_FailedInsertLeavesNothing ==
    [][\A r \in ReqIds :
          InsertFails(r) =>
              /\ RowsOf(highlightsTable', requests[r].pdfId) = <<>>
              /\ requests'[r].status # 200]_vars

\* C2 amended: the request answers an error in every case; the document has no
\* rows when no other sync of the same document overlapped.
C2_FailedInsertLeavesNothingAlone ==
    [][\A r \in ReqIds :
          InsertFails(r) =>
              /\ ~requests'[r].overlap => RowsOf(highlightsTable', requests[r].pdfId) = <<>>
              /\ requests'[r].status = 500]_vars

\* A sync of a non-empty set, alone on its document, has answered 500 from its
\* insert, and the document has no rows while the other document keeps its row.
C2_Witness ==
    \E r \in ReqIds :
        /\ requests[r] # NoReq
        /\ requests[r].method = "POST"
        /\ requests[r].pc = "responded"
        /\ requests[r].status = 500
        /\ requests[r].last = "insert"
        /\ ~requests[r].overlap
        /\ Len(requests[r].body.highlights) > 0
        /\ RowsOf(highlightsTable, requests[r].pdfId) = <<>>
        /\ highlightsTable # <<>>

\* The step in which the editor takes the answer to request r of `owner`.
Completes(r, owner) ==
    /\ Responded(r)
    /\ requests[r].owner = owner
    /\ requests'[r] = NoReq

\* C3: the step that completes a failed save (an error response, or a network
\* error) leaves the dirty flag and the local highlights as they were.
C3_FailedSaveKeepsDirty ==
    [][\A r \in ReqIds :
          (Completes(r, "save") /\ ~ResponseOk(r)) =>
              /\ hasUnsavedChanges' = hasUnsavedChanges
              /\ highlights' = highlights]_vars

\* A save of unsaved highlights whose insert failed after the delete is about
\* to be completed by the editor.
C3_Witness ==
    \E r \in ReqIds :
        /\ Responded(r)
        /\ requests[r].owner = "save"
        /\ requests[r].status = 500
        /\ requests[r].last = "insert"
        /\ hasUnsavedChanges
        /\ isSyncing
        /\ highlights = requests[r].body.highlights
        /\ highlights # <<>>

\* The open document stays the same over the step.
SameDocument == docLoaded /\ docLoaded' /\ file' = file /\ currentPdfId' = currentPdfId

\* C4 as stated: every add and every remove sets the dirty flag, and while the
\* same document is open the flag goes from true to false only in the step
\* that completes a successful save.
C4_DirtyClearedOnlyBySync ==
    [][/\ ((addHighlight("r1") /\ highlights' # highlights)
              \/ \E id \in IdsOf(highlights) : handleDeleteHighlight(id))
          => hasUnsavedChanges'
       /\ (hasUnsavedChanges /\ ~hasUnsavedChanges' /\ SameDocument)
          => \E r \in ReqIds : Completes(r, "save") /\ ResponseOk(r)]_vars

\* C5 as stated: the answer to a load or save sent for another document
\* identity than the current one changes neither the highlights nor the dirty
\* flag.
C5_LateResponseIgnored ==
    [][\A r \in ReqIds :
          ((Completes(r, "load") \/ Completes(r, "save"))
              /\ requests[r].pdfId # currentPdfId)
          => (highlights' = highlights /\ hasUnsavedChanges' = hasUnsavedChanges)]_vars

SavesInFlight == {r \in ReqIds : requests[r] # NoReq /\ requests[r].owner = "save"}

\* C6: at most one save is outstanding, and while one is, isSyncing is true and
\* the Save button is disabled.
C6_OneSaveAtATime ==
    /\ Cardinality(SavesInFlight) <= 1
    /\ SavesInFlight # {} => (isSyncing /\ ~SaveButtonEnabled)

\* A save is in flight while the session is dirty and shows the Save button.
C6_Witness ==
    /\ SavesInFlight # {}
    /\ hasUnsavedChanges
    /\ ToolbarShown
    /\ currentPdfId # Null
    /\ FreeSlots # {}

\* C7 as stated: while a document is open, every stored highlight has some
\* rectangle and a page of that document.
C7_StoredHighlightsValid ==
    docLoaded =>
        \A i \in 1..Len(highlights) :
            /\ Len(highlights[i].rects) > 0
            /\ 1 <= highlights[i].page_number
            /\ highlights[i].page_number <= numPages

Degenerate(w, h) == w = 0 \/ h = 0

\* C8 as stated: no captured highlight holds a rectangle of zero width or zero
\* height.
C8_NoDegenerateRectStored ==
    \A i \in 1..Len(highlights) :
        \A j \in 1..Len(highlights[i].rects) :
            ~Degenerate(highlights[i].rects[j].width.n, highlights[i].rects[j].height.n)

\* The selection is absent, collapsed, or covers only zero-area boxes.
BadSelection ==
    \/ selection.rangeCount = 0
    \/ selection.isCollapsed
    \/ \A j \in 1..Len(selection.clientRects) :
           Degenerate(selection.clientRects[j].width, selection.clientRects[j].height)

\* C9: a capture on an absent, collapsed or all-degenerate selection leaves the
\* highlights and the dirty flag as they were.
C9_BadSelectionCapturesNothing ==
    [][(BadSelection /\ addHighlight("r1")) =>
          (highlights' = highlights /\ hasUnsavedChanges' = hasUnsavedChanges)]_vars

\* A selection of zero-area boxes only is about to be captured on a mounted
\* page, into a store that has room and already holds a highlight.
C9_Witness ==
    /\ selection = SelDegenerate
    /\ ToolbarShown
    /\ pageNumber \in PageRefs
    /\ Len(highlights) = 1
    /\ now < MaxNow

\* The stored quantity q is `value` client pixels at the zoom scale10 / 10.
AtScale(q, value, scale10) == q.n * scale10 = value * 10 * q.d

\* C10: a capture of a good selection on a mounted page appends exactly one
\* highlight at the end: the earlier ones keep their places, the new id is not
\* among theirs, its page is the active page, its rectangles are the selection's
\* in order, its colour is the chosen one, and the dirty flag is true.
C10_CaptureAppendsOne ==
    [][(~BadSelection /\ pageNumber \in PageRefs /\ addHighlight("r1")) =>
          /\ Len(highlights') = Len(highlights) + 1
          /\ \A i \in 1..Len(highlights) : highlights'[i] = highlights[i]
          /\ LET h == highlights'[Len(highlights')]
                 cr == selection.clientRects
                 pr == PageRect(pageNumber)
             IN  /\ h.id \notin IdsOf(highlights)
                 /\ h.page_number = pageNumber
                 /\ h.color = selectedHighlightColor
                 /\ h.selected_text = selection.text
                 /\ Len(h.rects) = Len(cr)
                 /\ \A j \in 1..Len(cr) :
                        /\ AtScale(h.rects[j].top, cr[j].top - pr.top, scale)
                        /\ AtScale(h.rects[j].left, cr[j].left - pr.left, scale)
                        /\ AtScale(h.rects[j].width, cr[j].width, scale)
                        /\ AtScale(h.rects[j].height, cr[j].height, scale)
          /\ hasUnsavedChanges']_vars

\* A second capture, of three boxes on page 2 in red at zoom 2.0, is stored
\* after a first highlight of another page and colour.
C10_Witness ==
    /\ Len(highlights) = 2
    /\ highlights[1].page_number = 1
    /\ highlights[1].color = YELLOW
    /\ highlights[2].page_number = 2
    /\ highlights[2].color = RED
    /\ Len(highlights[2].rects) = 3
    /\ highlights[2].rects[1].width = Frac(54 * 10, 20)
    /\ hasUnsavedChanges

\* The export request is past its body checks and the load of the document.
ExportAccepted ==
    /\ exportRequest.pc \in {"sent", "drawing", "responded"}
    /\ exportRequest.body.parsable
    /\ exportRequest.body.pdfData # NoPdfData
    /\ exportRequest.body.hasHighlights
    /\ FromBase64(exportRequest.body.pdfData) # Garbage

ExportPageCount == DocNumPages(FromBase64(exportRequest.body.pdfData))

\* What is to be drawn for the highlights hs: for each highlight of a page in
\* 1..pageCount, in order, each of its rectangles in order.
RECURSIVE ExportTargets(_, _)
ExportTargets(hs, pageCount) ==
    IF hs = <<>> THEN <<>>
    ELSE LET h == Head(hs)
         IN  (IF h.pageNumber \in 1..pageCount
              THEN [j \in 1..Len(h.rects) |->
                       [page |-> h.pageNumber, rect |-> h.rects[j], color |-> h.color]]
              ELSE <<>>)
             \o ExportTargets(Tail(hs), pageCount)

Yellow03 == [color |-> Rgb(One, One, Zero), opacity |-> [n |-> 3, d |-> 10]]

\* The colour and opacity C12 gives each colour string: yellow at 0.3 for an
\* absent colour and for a string that is no rgb(R,G,B) or rgba(R,G,B,A) with
\* numbers; the colour at 1.0 for rgb; the colour at A for rgba.
ExpectedPaint(c) ==
    CASE c = YELLOW -> [color |-> Rgb(One, One, Zero), opacity |-> [n |-> 2, d |-> 5]]
      [] c = RED -> [color |-> Rgb(One, Zero, Zero), opacity |-> [n |-> 3, d |-> 10]]
      [] c = BLUE -> [color |-> Rgb(Zero, Zero, One), opacity |-> [n |-> 3, d |-> 10]]
      [] c = RgbOpaque ->
            [color |-> Rgb([n |-> 2, d |-> 51], [n |-> 4, d |-> 51], [n |-> 2, d |-> 17]),
             opacity |-> One]
      [] c = RgbaHalf ->
            [color |-> Rgb([n |-> 2, d |-> 51], [n |-> 4, d |-> 51], [n |-> 2, d |-> 17]),
             opacity |-> [n |-> 1, d |-> 2]]
      [] c = RgbaOver ->
            [color |-> Rgb([n |-> 2, d |-> 51], [n |-> 4, d |-> 51], [n |-> 2, d |-> 17]),
             opacity |-> [n |-> 3, d |-> 2]]
      [] OTHER -> Yellow03

\* C12 as stated: every rectangle is drawn in one of three ways, by the colour
\* string of its highlight: yellow at 0.3 when the colour is absent or cannot
\* be parsed, the colour at 1.0 for rgb(R,G,B), the colour at A for
\* rgba(R,G,B,A), A unclamped.
C12_ThreeColourOutcomes ==
    (ExportAccepted /\ exportRequest.pc = "responded") =>
        LET targets == ExportTargets(exportRequest.body.highlights, ExportPageCount)
            draws == exportRequest.draws
        IN  \A k \in 1..Len(draws) :
                /\ draws[k].color = ExpectedPaint(targets[k].color).color
                /\ draws[k].opacity = ExpectedPaint(targets[k].color).opacity

\* a + b + c = whole, on the stored quantities.
SumsTo(a, b, c, whole) ==
    a.n * b.d * c.d + b.n * a.d * c.d + c.n * a.d * b.d = whole * a.d * b.d * c.d

\* C13: an accepted export draws each rectangle of each highlight of a valid
\* page exactly once, at x = left and y = pageHeight - top - height, with its
\* width and height as stored, also when the rectangle leaves the page, and
\* answers 200.
C13_RectDrawnInverted ==
    (ExportAccepted /\ exportRequest.pc = "responded") =>
        LET targets == ExportTargets(exportRequest.body.highlights, ExportPageCount)
            draws == exportRequest.draws
            sizes == PageSizes(FromBase64(exportRequest.body.pdfData))
        IN  /\ exportRequest.status = 200
            /\ Len(draws) = Len(targets)
            /\ \A k \in 1..Len(draws) :
                   /\ draws[k].x = targets[k].rect.left
                   /\ SumsTo(draws[k].y, targets[k].rect.top, targets[k].rect.height,
                             sizes[targets[k].page].height)
                   /\ draws[k].width = targets[k].rect.width
                   /\ draws[k].height = targets[k].rect.height

\* An export has drawn the rectangle {top 10, left 5, width 100, height 20} of
\* a page of height 800 at y = 770, and a rectangle that leaves the page at
\* x = -5, y = -10 with its width of 700.
C13_Witness ==
    /\ exportRequest.pc = "responded"
    /\ exportRequest.status = 200
    /\ Len(exportRequest.draws) = 2
    /\ exportRequest.draws[1].page = 1
    /\ exportRequest.draws[1].x = Frac(5, 1)
    /\ exportRequest.draws[1].y = Frac(770, 1)
    /\ exportRequest.draws[2].x = Frac(-5, 1)
    /\ exportRequest.draws[2].y = Frac(-10, 1)
    /\ exportRequest.draws[2].width = Frac(700, 1)

\* The zoom scales (in tenths) the toolbar can reach from 1.8.
ZoomScales == {s \in 2..MaxScale : s % 2 = 0}

\* A quantity on screen at scale from10, brought to scale to10.
Rescaled(q, from10, to10) == Frac(q.n * to10, q.d * from10)

\* C14: the rectangle stored by a capture at the current scale, shown at any
\* scale s2 and brought back to the capture's scale, is the selection's
\* rectangle relative to the page.
C14_ScaleRoundTrip ==
    [][(~BadSelection /\ pageNumber \in PageRefs /\ addHighlight("r1")) =>
          LET h == highlights'[Len(highlights')]
              cr == selection.clientRects
              pr == PageRect(pageNumber)
          IN  \A s2 \in ZoomScales :
                  \A j \in 1..Len(cr) :
                      LET shown == ToScreenRect(h.rects[j], s2)
                      IN  /\ Rescaled(shown.top, s2, scale) = Frac(cr[j].top - pr.top, 1)
                          /\ Rescaled(shown.left, s2, scale) = Frac(cr[j].left - pr.left, 1)
                          /\ Rescaled(shown.width, s2, scale) = Frac(cr[j].width, 1)
                          /\ Rescaled(shown.height, s2, scale) = Frac(cr[j].height, 1)]_vars

\* A one-line selection 90 pixels wide was captured at scale 1.2 (stored width
\* 75) and is shown at scale 2.0.
C14_Witness ==
    /\ Len(highlights) = 1
    /\ highlights[1].rects[1].width = Frac(75, 1)
    /\ scale = 20

\* C15: when the same body was posted twice in a row for a document and both
\* posts answered success, the document's rows are the rows read after the
\* first post, one row for each highlight of the body.
C15_SyncIdempotent ==
    twice.phase = "done" =>
        /\ RowsOf(highlightsTable, twice.body.pdfId) = twice.afterFirst
        /\ Len(RowsOf(highlightsTable, twice.body.pdfId)) = Len(twice.body.highlights)

\* Two highlights were synced twice in a row with success while document B
\* holds a row.
C15_Witness ==
    /\ twice.phase = "done"
    /\ twice.body.highlights = <<SampleMixed, SampleLine>>
    /\ Len(twice.afterFirst) = 2
    /\ RowsOf(highlightsTable, "B") # <<>>

\* The place of a highlight in the local sequence (ids are distinct here).
PlaceOf(h) == CHOOSE i \in 1..Len(highlights) : highlights[i].id = h.id

\* C16: the pages of the grouping ascend; the group of a page holds each
\* highlight of that page once and no other; within a group the first
\* rectangle's top ascends, and highlights of equal top keep their order of
\* insertion.
C16_GroupedAndOrdered ==
    LET groups == allHighlightsGroupedByPage
        pages == pagesWithHighlights
    IN  /\ \A k \in 1..(Len(pages) - 1) : pages[k] < pages[k + 1]
        /\ {pages[k] : k \in 1..Len(pages)} = {highlights[i].page_number : i \in 1..Len(highlights)}
        /\ \A p \in DOMAIN groups :
               LET g == groups[p]
                   ofPage == {i \in 1..Len(highlights) : highlights[i].page_number = p}
               IN  /\ Len(g) = Cardinality(ofPage)
                   /\ {PlaceOf(g[k]) : k \in 1..Len(g)} = ofPage
                   /\ \A k \in 1..Len(g) : g[k] = highlights[PlaceOf(g[k])]
                   /\ \A k, l \in 1..Len(g) :
                          k < l =>
                              \/ Less(g[k].rects[1].top, g[l].rects[1].top)
                              \/ /\ g[k].rects[1].top = g[l].rects[1].top
                                 /\ PlaceOf(g[k]) < PlaceOf(g[l])

\* Three highlights of page 1 with tops 40, 20, 40 are listed as the second,
\* the first, the third.
C16_Witness ==
    /\ Len(highlights) = 3
    /\ \A i \in 1..3 : highlights[i].id = NewId(i, "r1")
    /\ allHighlightsGroupedByPage[1] = <<highlights[2], highlights[1], highlights[3]>>
    /\ pagesWithHighlights = <<1>>

\* C17: while the session has no document identity the Save button is not
\* offered and the handler, were it invoked, returns before it touches the
\* busy flag or sends anything; no step from such a state puts a save request
\* in flight.
C17_NoSaveWithoutIdentity ==
    [][currentPdfId = Null =>
          /\ ~SaveButtonEnabled
          /\ SaveReturnsEarly
          /\ \A r \in ReqIds :
                 requests[r] = NoReq => requests'[r] = NoReq \/ requests'[r].owner # "save"]_vars

\* A local file with an unsaved highlight and no save running: all that keeps
\* Save from being offered is the missing identity.
C17_Witness ==
    /\ currentPdfId = Null
    /\ ToolbarShown
    /\ Len(highlights) > 0
    /\ hasUnsavedChanges
    /\ ~isSyncing

\* C18: the Export button is offered whenever a document with highlights is
\* shown and no export or document load runs, whatever the dirty flag and the
\* document identity are; the handler takes the local highlights as they are at
\* the click and the request it sends carries them, one entry per highlight in
\* order; no step of the export changes the highlights or the dirty flag.
C18_ExportOfLocalHighlights ==
    [][/\ (ToolbarShown /\ file # Null /\ ~isLoadingPdf /\ ~isExporting /\ Len(highlights) > 0)
            => ExportButtonEnabled
       /\ (exportRequest.pc = "none" /\ exportRequest'.pc = "reading")
            => exportRequest'.highlights = highlights /\ exportRequest'.file = file
       /\ (exportRequest.pc = "reading" /\ exportRequest'.pc = "sent")
            => LET sent == exportRequest'.body.highlights
                   local == exportRequest.highlights
               IN  /\ Len(sent) = Len(local)
                   /\ \A i \in 1..Len(local) :
                          /\ sent[i].id = local[i].id
                          /\ sent[i].pageNumber = local[i].page_number
                          /\ sent[i].rects = local[i].rects
                          /\ sent[i].selectedText = local[i].selected_text
                          /\ sent[i].color = local[i].color
       /\ (exportRequest' # exportRequest \/ isExporting' # isExporting)
            => highlights' = highlights /\ hasUnsavedChanges' = hasUnsavedChanges]_vars

\* A local file without document identity, its highlight never saved, has
\* been exported: the endpoint answered 200 after drawing the highlight.
C18_Witness ==
    /\ currentPdfId = Null
    /\ hasUnsavedChanges
    /\ Len(highlights) > 0
    /\ exportRequest.pc = "responded"
    /\ exportRequest.owner = "editor"
    /\ exportRequest.status = 200
    /\ exportRequest.body.highlights = ExportPayloadHighlights(highlights)
    /\ Len(exportRequest.draws) > 0

\* An upload has answered after its insert failed behind a stored blob.
UploadRolledBack ==
    /\ fileRequest.pc = "responded"
    /\ fileRequest.route = "upload"
    /\ Len(fileRequest.steps) = 3

\* C19: when an upload answers after its insert failed, the blob it stored is
\* no longer in the blob store, the pdfs table has no row it had not before,
\* and the answer is the error.
C19_BlobRolledBack ==
    UploadRolledBack =>
        /\ fileRequest.path \notin blobStore
        /\ pdfsTable = fileRequest.before
        /\ fileRequest.status = 500

\* A delete has answered for a body that names a document and a path.
DeleteAnswered ==
    /\ fileRequest.pc = "responded"
    /\ fileRequest.route = "delete"
    /\ fileRequest.body.parsable
    /\ fileRequest.body.pdfId # Null
    /\ fileRequest.body.storagePath # NoPath

DeleteOrder == <<"highlights", "blob", "pdfs">>

\* C20: a delete makes its store calls in the order highlights, blob, pdfs
\* row; whatever the first two return, all three have been made when it
\* answers; it answers 200 when the pdfs delete was carried out, and then no
\* pdfs row has the document's id, and 500 when it was not.
C20_DeleteStepsInOrder ==
    /\ (fileRequest.pc # "none" /\ fileRequest.route = "delete") =>
           /\ Len(fileRequest.steps) <= 3
           /\ \A i \in 1..Len(fileRequest.steps) : fileRequest.steps[i].call = DeleteOrder[i]
    /\ DeleteAnswered =>
           /\ Len(fileRequest.steps) = 3
           /\ fileRequest.status = 200 <=> fileRequest.steps[3].ok
           /\ fileRequest.status \in {200, 500}
           /\ fileRequest.status = 200 =>
                  \A i \in 1..Len(pdfsTable) : pdfsTable[i].id # fileRequest.body.pdfId

\* The highlights delete and the blob removal both failed, the pdfs delete
\* was carried out and the answer is 200, while highlights of the document
\* and the blob are still stored.
C20_Witness ==
    /\ DeleteAnswered
    /\ fileRequest.steps = <<Step("highlights", FALSE), Step("blob", FALSE), Step("pdfs", TRUE)>>
    /\ fileRequest.status = 200
    /\ RowsOf(highlightsTable, fileRequest.body.pdfId) # <<>>
    /\ fileRequest.body.storagePath \in blobStore

storedState == <<highlightsTable, pdfsTable, blobStore>>

\* C21: the step in which an endpoint takes up a request that fails its
\* checks answers it with an error status at once, without a store call
\* (no step recorded, no draw made) and with the tables and the blob store
\* as they were; this for upload, delete, highlight load, highlight sync and
\* export alike.
C21_InvalidRequestNotAttempted ==
    [][/\ (fileRequest.pc = "sent" /\ fileRequest' # fileRequest /\ fileRequest.route = "upload"
              /\ fileRequest.form \in BadUploadForms)
            => /\ fileRequest'.pc = "responded"
               /\ fileRequest'.status \in {400, 500}
               /\ fileRequest'.steps = <<>>
               /\ storedState' = storedState
       /\ (fileRequest.pc = "sent" /\ fileRequest' # fileRequest /\ fileRequest.route = "delete"
              /\ fileRequest.body \in BadDeleteBodies)
            => /\ fileRequest'.pc = "responded"
               /\ fileRequest'.status = 400
               /\ fileRequest'.steps = <<>>
               /\ storedState' = storedState
       /\ \A r \in ReqIds :
              (requests[r] # NoReq /\ requests[r].pc = "sent" /\ requests'[r] # requests[r]
                  /\ \/ requests[r].method = "POST" /\ requests[r].body \in BadSyncBodies
                     \/ requests[r].method = "GET" /\ requests[r].pdfId = Null)
                => /\ requests'[r].pc = "responded"
                   /\ requests'[r].status \in {400, 500}
                   /\ requests'[r].last = "check"
                   /\ requests'[r].data = <<>>
                   /\ storedState' = storedState
       /\ (exportRequest.pc = "sent" /\ exportRequest' # exportRequest
              /\ exportRequest.body \in BadExportBodies)
            => /\ exportRequest'.pc = "responded"
               /\ exportRequest'.status \in {400, 500}
               /\ exportRequest'.draws = <<>>
               /\ storedState' = storedState]_vars

\* A delete that names no document has been answered 400 while a document,
\* its blob and highlights are stored: all of them are still there.
C21_Witness ==
    /\ fileRequest.pc = "responded"
    /\ fileRequest.route = "delete"
    /\ fileRequest.body \in BadDeleteBodies
    /\ fileRequest.status = 400
    /\ Len(pdfsTable) > 0
    /\ blobStore # {}
    /\ highlightsTable # <<>>

\* C22: when the load handler's select finds no row of the document, the
\* answer is 200 with an empty sequence; when the client takes that answer
\* up, it holds no highlight, no highlighted page, and is not dirty.
C22_EmptyLoadIsSuccess ==
    [][\A r \in ReqIds :
          /\ (/\ requests[r] # NoReq
              /\ requests[r].method = "GET"
              /\ requests[r].pc = "sent"
              /\ requests[r].pdfId # Null
              /\ RowsOf(highlightsTable, requests[r].pdfId) = <<>>
              /\ requests'[r] # NoReq
              /\ requests'[r].pc = "responded")
                => requests'[r].status = 200 /\ requests'[r].data = <<>>
          /\ (/\ Responded(r)
              /\ requests[r].owner = "load"
              /\ requests[r].status = 200
              /\ requests[r].data = <<>>
              /\ requests'[r] = NoReq)
                => highlights' = <<>> /\ highlightedPages' = {} /\ ~hasUnsavedChanges']_vars

\* The load of document A has been answered 200 with no highlight, while the
\* user has highlighted in the meantime.
C22_Witness ==
    \E r \in ReqIds :
        /\ Responded(r)
        /\ requests[r].owner = "load"
        /\ requests[r].pdfId = "A"
        /\ requests[r].status = 200
        /\ requests[r].data = <<>>
        /\ Len(highlights) > 0
        /\ hasUnsavedChanges

\* The highlights before the first one that makes the loop throw (all of
\* them when none does): a highlight of a page outside the document is
\* skipped before its rectangles are looked at.
RECURSIVE BeforeThrow(_, _)
BeforeThrow(hs, pageCount) ==
    IF hs = <<>> THEN <<>>
    ELSE IF Head(hs).pageNumber \in 1..pageCount /\ "rects" \notin DOMAIN Head(hs) THEN <<>>
    ELSE <<Head(hs)>> \o BeforeThrow(Tail(hs), pageCount)

\* C23: an export answers either 200 with the document it loaded and every
\* rectangle of the payload drawn into it, or an error status with no
\* document at all; an export of bytes that are no PDF answers 500 with no
\* document and nothing drawn, and one that throws in its loop answers 500
\* with no document whatever was drawn before.
C23_AllOrNothing ==
    exportRequest.pc = "responded" =>
        LET body == exportRequest.body
            source == FromBase64(body.pdfData)
        IN  /\ \/ /\ exportRequest.status = 200
                  /\ exportRequest.output.kind = "pdf"
                  /\ exportRequest.output.source = source
                  /\ source # Garbage
                  /\ BeforeThrow(body.highlights, DocNumPages(source)) = body.highlights
                  /\ Len(exportRequest.output.draws)
                        = Len(ExportTargets(body.highlights, DocNumPages(source)))
               \/ /\ exportRequest.status \in {400, 500}
                  /\ exportRequest.output = NoOutput
            /\ source = Garbage =>
                   exportRequest.status = 500 /\ exportRequest.draws = <<>>
            /\ (source # Garbage
                   /\ BeforeThrow(body.highlights, DocNumPages(source)) # body.highlights)
                 => exportRequest.status = 500

\* Bytes that are no PDF, sent with a highlight, have been answered 500.
C23_Witness ==
    /\ exportRequest.pc = "responded"
    /\ FromBase64(exportRequest.body.pdfData) = Garbage
    /\ Len(exportRequest.body.highlights) > 0
    /\ exportRequest.status = 500
    /\ exportRequest.output = NoOutput

\* C24: a batch of two entries makes the page of its first intersecting
\* entry the active page, and leaves the active page alone when neither
\* intersects; a highlight that is captured gets the active page as its page.
C24_FirstVisibleEntryWins ==
    [][/\ \A entries \in EntryPairs(observed) :
              observerCallback(entries) =>
                  pageNumber' = IF entries[1].isIntersecting THEN entries[1].page
                                ELSE IF entries[2].isIntersecting THEN entries[2].page
                                ELSE pageNumber
       /\ Len(highlights') = Len(highlights) + 1 =>
              highlights'[Len(highlights')].page_number = pageNumber]_vars

\* Page 2 has become the active page, which only a notification does, and a
\* highlight has been captured on it.
C24_Witness ==
    /\ pageNumber = 2
    /\ Len(highlights) > 0
    /\ highlights[Len(highlights)].page_number = 2

PlacesKept(id) == {i \in 1..Len(highlights) : highlights[i].id # id}

\* C26: a remove leaves exactly the highlights of another id, in their
\* order, and marks the session dirty; a remove of an id that no highlight
\* has changes nothing.
C26_RemoveById ==
    [][\A h \in GroupSamples :
          handleDeleteHighlight(h.id) =>
              /\ Len(highlights') = Cardinality(PlacesKept(h.id))
              /\ \A k \in 1..Len(highlights') :
                     highlights'[k] =
                         highlights[CHOOSE i \in PlacesKept(h.id) :
                                        Cardinality({j \in PlacesKept(h.id) : j <= i}) = k]
              /\ h.id \in IdsOf(highlights) => hasUnsavedChanges'
              /\ h.id \notin IdsOf(highlights) => UNCHANGED vars]_vars

\* Request r is new in this step, or sent anew.
Issued(r) ==
    /\ requests'[r] # NoReq
    /\ requests'[r].pc = "sent"
    /\ requests[r] = NoReq \/ requests[r].pc # "sent"

\* C27: the step in which the client takes up a failed load, a failed save
\* or a failed export issues no request, and so does every other step but
\* these: a load is issued when a document has been opened, a save at the
\* click on Save, an export after the click on Export.
C27_NoAutomaticRetry ==
    [][/\ \A r \in ReqIds :
              Issued(r) =>
                  \/ requests'[r].owner = "load" /\ onDocumentLoadSuccess
                  \/ requests'[r].owner = "save" /\ handleSaveHighlights
       /\ (exportRequest'.pc = "reading" /\ exportRequest.pc # "reading") => handleExportPdf
       /\ (exportRequest'.pc = "sent" /\ exportRequest.pc # "sent") =>
              exportRequest.pc = "reading"
       /\ \A r \in ReqIds :
              (Responded(r) /\ ~ResponseOk(r) /\ requests[r].owner \in {"load", "save"}
                  /\ requests'[r] # requests[r] /\ requests'[r] = NoReq)
                => /\ \A q \in ReqIds : ~Issued(q)
                   /\ exportRequest' = exportRequest
       /\ (exportRequest.pc # "none" /\ exportRequest'.pc = "none")
            => \A q \in ReqIds : ~Issued(q)]_vars

\* A save has been answered with an error: the highlights are still unsaved.
C27_Witness ==
    \E r \in ReqIds :
        /\ Responded(r)
        /\ requests[r].owner = "save"
        /\ requests[r].status = 500
        /\ hasUnsavedChanges
        /\ isSyncing

\* C28: at any time the observer observes exactly the page wrappers of the
\* open document, and none when no document is open.
C28_ObserverFollowsDocument == observed = PageRefs

\* Two rendering operations are in flight for the same page of the document
\* that is open.
RenderedTwice ==
    \E j, k \in DOMAIN thumbnailRenders :
        /\ j < k
        /\ thumbnailRenders[j].page = thumbnailRenders[k].page
        /\ thumbnailRenders[j].current
        /\ thumbnailRenders[k].current
        /\ docLoaded

\* C29: for the open document there are never two rendering operations in
\* flight for the same page number.
C29_NoDuplicateRendering == ~RenderedTwice

\* The step in which the insert of request r is carried out.
InsertSucceeds(r) ==
    /\ SyncStep(r)
    /\ requests[r].pc = "deleted"
    /\ requests'[r].status = 200

\* C30: nothing holds a sync back between its delete and its insert, and the
\* insert adds to whatever rows the document has by then: when two syncs of
\* one document have both deleted, the insert of the first leaves the second
\* as it was, about to insert, and each insert keeps the rows it finds.
C30_InsertsAddToWhatIsThere ==
    [][\A r \in ReqIds :
          InsertSucceeds(r) =>
              /\ RowsOf(highlightsTable', requests[r].pdfId)
                   = RowsOf(highlightsTable, requests[r].pdfId)
                       \o HighlightsToInsert(requests[r].pdfId, requests[r].body.highlights)
              /\ \A q \in ReqIds \ {r} : requests'[q] = requests[q]]_vars

\* Two overlapping syncs of document A, one of one highlight and one of two,
\* have both answered success, and the document holds the rows of the first
\* followed by the rows of the second: the set of neither.
C30_Witness ==
    \E r, q \in ReqIds :
        LET H1 == HighlightsToInsert("A", <<SampleLine>>)
            H2 == HighlightsToInsert("A", <<SampleMixed, SampleLine>>)
        IN  /\ r # q
            /\ Responded(r) /\ Responded(q)
            /\ requests[r].method = "POST" /\ requests[q].method = "POST"
            /\ requests[r].body = SyncBody("A", <<SampleLine>>)
            /\ requests[q].body = SyncBody("A", <<SampleMixed, SampleLine>>)
            /\ requests[r].status = 200 /\ requests[r].last = "insert"
            /\ requests[q].status = 200 /\ requests[q].last = "insert"
            /\ requests[q].overlap
            /\ RowsOf(highlightsTable, "A") = H1 \o H2
            /\ RowsOf(highlightsTable, "A") # H1
            /\ RowsOf(highlightsTable, "A") # H2

\* What a highlight says, without the client's id and the row's document.
ContentsOf(h) ==
    [page_number |-> h.page_number, rects |-> h.rects,
     selected_text |-> h.selected_text, color |-> h.color]

ContentsIn(hs) == {ContentsOf(hs[i]) : i \in 1..Len(hs)}

\* A load or a save of the editor is outstanding.
LoadOrSaveOutstanding ==
    \E r \in ReqIds : requests[r] # NoReq /\ requests[r].owner \in {"load", "save"}

\* C31: whenever the session has a document identity, its document is open,
\* the dirty flag is false and no load or save is outstanding, the local
\* highlights say what the rows of the document say.
C31_CleanMeansStored ==
    (currentPdfId # Null /\ docLoaded /\ ~hasUnsavedChanges /\ ~LoadOrSaveOutstanding)
        => ContentsIn(highlights) = ContentsIn(RowsOf(highlightsTable, currentPdfId))

\* The highlights of the store that were captured here (a loaded one has no
\* client id).
AddedLocally(hs) == {hs[i] : i \in {j \in 1..Len(hs) : hs[j].id # Undefined}}

\* C32: the step that takes up the answer of a load of the open document,
\* good or bad, keeps every highlight captured before it and keeps the dirty
\* flag set.
C32_LoadKeepsLocalAdds ==
    [][\A r \in ReqIds :
          (Completes(r, "load") /\ docLoaded /\ requests[r].pdfId = currentPdfId)
            => /\ AddedLocally(highlights) \subseteq AddedLocally(highlights')
               /\ hasUnsavedChanges => hasUnsavedChanges']_vars

\* Every highlights row is of a document that has a pdfs row.
HighlightsHaveDocument ==
    \A i \in 1..Len(highlightsTable) : highlightsTable[i].pdf_id \in IdsOfPdfs

\* Every pdfs row names a blob the bucket holds.
DocumentsHaveBlob ==
    \A i \in 1..Len(pdfsTable) : pdfsTable[i].storage_object_path \in blobStore

\* C33: whenever no request is in progress, every highlights row is of a
\* document that has a pdfs row and every pdfs row names a blob that exists.
C33_NoDanglingRows == Quiet => (HighlightsHaveDocument /\ DocumentsHaveBlob)

\* The page whose wrapper the first box of the selection lies in (the
\* wrappers are stacked, each beginning where PageRect says).
PageOfSelection ==
    CHOOSE p \in 1..numPages :
        /\ PageRect(p).top <= selection.clientRects[1].top
        /\ selection.clientRects[1].top < PageRect(p + 1).top

\* C34: a capture stores the new highlight under the page the selected text
\* lies on, and none of its rectangles begins above or left of that page's
\* origin.
C34_CapturedOnItsPage ==
    [][(addHighlight("r1") /\ Len(highlights') = Len(highlights) + 1) =>
          LET h == highlights'[Len(highlights')]
          IN  /\ h.page_number = PageOfSelection
              /\ \A j \in 1..Len(h.rects) :
                     /\ ~Less(h.rects[j].top, Frac(0, 1))
                     /\ ~Less(h.rects[j].left, Frac(0, 1))]_vars

\* C35: from some moment on no rendering is in flight and the effect has no
\* page left to render.
C35_RenderingSettles == <>[](thumbnailRenders = <<>> /\ PagesToRender = {})

\* C36: while a document is open every stored thumbnail was rendered from
\* it, and the end of a rendering started for a document held before changes
\* neither the thumbnails nor the markers.
C36_ThumbnailsOfOpenDocument ==
    [][/\ docLoaded' =>
              \A p \in DOMAIN pageThumbnails' : pageThumbnails'[p] = file'
       /\ \A k \in 1..MaxRenders :
              ((thumbnailRendered(k) \/ thumbnailFailed(k))
                  /\ ~thumbnailRenders[k].current /\ docLoaded)
                => /\ pageThumbnails' = pageThumbnails
                   /\ generatingThumbnails' = generatingThumbnails]_vars

\* A step of the upload handler.
UploadStep ==
    /\ fileRequest.pc \in {"sent", "stored", "insertFailed"}
    /\ fileRequest.route = "upload"
    /\ fileRequest' # fileRequest

\* C37: an upload whose storage key is the path of an existing blob answers
\* 500 at once and leaves the blobs and the pdfs rows as they were; and no
\* step of an upload changes a pdfs row that exists or removes a blob other
\* than the one this upload stored.
C37_UploadNeverOverwrites ==
    [][/\ \A t \in 1..MaxStamp, stOk \in BOOLEAN :
              (/\ UploadStorage(t, stOk)
               /\ fileRequest.form.parsable
               /\ fileRequest.form.hasFile
               /\ fileRequest.form.type = PdfType
               /\ StorageFileName(t, fileRequest.form.name) \in blobStore)
                => /\ fileRequest'.pc = "responded"
                   /\ fileRequest'.status = 500
                   /\ blobStore' = blobStore
                   /\ pdfsTable' = pdfsTable
       /\ UploadStep =>
              /\ Len(pdfsTable') >= Len(pdfsTable)
              /\ SubSeq(pdfsTable', 1, Len(pdfsTable)) = pdfsTable
              /\ blobStore \ {fileRequest.path} \subseteq blobStore']_vars

\* An upload of a.pdf has answered 500 from its blob upload while the bucket
\* holds a blob of that name for every timestamp: the key was taken. The two
\* documents stored before are still there.
C37_Witness ==
    /\ fileRequest.pc = "responded"
    /\ fileRequest.route = "upload"
    /\ fileRequest.status = 500
    /\ fileRequest.steps = <<Step("upload", FALSE)>>
    /\ \A t \in 1..MaxStamp : StorageFileName(t, fileRequest.form.name) \in blobStore
    /\ Len(pdfsTable) = 2
    /\ pdfsTable = fileRequest.before
    /\ DocumentsHaveBlob

\* C38: a save that has set isSyncing and an export that has set isExporting
\* reset the flag in the end, whatever the outcome of the request.
C38_BusyFlagsReset == (isSyncing ~> ~isSyncing) /\ (isExporting ~> ~isExporting)

\* A save is busy with a request the network has failed, and an export is
\* busy with a request the endpoint has answered.
C38_Witness ==
    /\ isSyncing
    /\ \E r \in ReqIds : Responded(r) /\ requests[r].owner = "save" /\ requests[r].status = 0
    /\ isExporting
    /\ exportRequest.pc = "responded"

\* C39: the zoom scale never falls below 0.2 (2 tenths), so dividing by it
\* is defined, and zoomOut at 0.2 leaves it at 0.2.
C39_ScaleAtLeastMinimum ==
    /\ [](scale >= 2)
    /\ [][(zoomOut /\ scale = 2) => scale' = 2]_vars

\* The user has zoomed out to the smallest scale of a loaded document that
\* carries a captured highlight.
C39_Witness ==
    /\ scale = 2
    /\ docLoaded
    /\ highlights # <<>>
    /\ hasUnsavedChanges

\* C40: on the manage-files page isLoading is true whenever an upload, a
\* delete or a list request of the page is outstanding, and no upload or
\* delete is triggered while one is.
RequestOutstanding == fileRequest # NoFileRequest \/ listRequests # <<>>

C40_BusyWhileOutstanding ==
    /\ [](RequestOutstanding => isLoading)
    /\ [][(handleSubmit \/ \E i \in 1..Len(pdfFiles) : handleDeleteFile(i))
             => ~RequestOutstanding]_vars

==========================================================================
